---------------------------- MODULE Spec2Model ----------------------------
(***************************************************************************)
(* A model of the amazon_music client: the Call Invoker                    *)
(* (AmazonMusic.call), the paginated library listing                       *)
(* (AmazonMusic.albums_in_library), the station queue (Station.tracks),    *)
(* the session constructor (AmazonMusic.__init__ / _authenticate), the     *)
(* lazy album upgrade (Album.tracks), the entity constructors (Track,      *)
(* Album, Playlist, Station __init__) and the stream URL (Track.url).      *)
(*                                                                         *)
(* The client is single-threaded and synchronous.  Each component has its  *)
(* own specification (SpecLibrary, SpecStation, SpecPagination,            *)
(* SpecSession, SpecSignIn, SpecSessionRun, SpecCall, SpecAlbum,           *)
(* SpecEntity); the variables of the other components stay at their idle   *)
(* values.  SpecSignIn is the constructor against every sign-in form,      *)
(* SpecSessionRun the constructor with its loops unbounded, under weak     *)
(* fairness of its steps.  The upstream service is                         *)
(* the environment: what it answers is chosen nondeterministically from    *)
(* bounded sets.                                                           *)
(***************************************************************************)
EXTENDS Integers, Sequences, FiniteSets, TLC

VARIABLES
    amzn,        \* the AmazonMusic object: credentials and session fields
    jarDirty,    \* the in-memory cookie jar holds cookies not yet saved to disk
    calls,       \* log of the invocations of AmazonMusic.call, oldest first
    libPages,    \* upstream: the chain of library pages the service will serve
    libPc,       \* position of the albums_in_library() generator
    libData,     \* local `data`: the most recently fetched searchLibraryResult
    libResults,  \* local `results`: the buffer of fetched, unconsumed items
    libQuery,    \* query['nextResultsToken']
    libYielded,  \* log of the albums yielded to the consumer, oldest first
    libStarts,   \* length of `calls` at each albums_in_library() invocation
    stPc,        \* position of the Station.tracks() generator
    stJson,      \* Station.json['trackMetadataList']: the creating call's batch
    stPageToken, \* Station._page_token
    stTracks,    \* local `tracks`: the buffer of the running generator
    stYielded,   \* log of the tracks the running generator yielded
    stIter,      \* number of tracks() generators started on the station
    stCallsBefore, \* length of `calls` when the running generator was made
    cookieFile,  \* value of the region cookie in the cookie file; NoCookie if none
    targetCookie, \* target_region_cookie: its value and whether the jar holds it
    seArgs,      \* the email and password passed to AmazonMusic(...)
    seForms,     \* upstream: the sign-in forms the service may serve
    sePc,        \* position of the constructor
    seR,         \* local `r`: the response in hand
    seReqs,      \* log of the requests the constructor sent, oldest first
    seResps,     \* log of the responses it received, oldest first
    seError,     \* the exception the constructor raised, None if none
    alb,         \* an Album object
    albAccesses, \* number of tracks() accesses made on it
    albResult,   \* what the latest tracks() access gave: the list, or an error
    entIn,       \* the entity kind and the JSON payload handed to its __init__
    entPc,       \* "raw" before __init__ ran, then "built" or "failed"
    entOut,      \* what __init__ gave: the object, or the exception raised
    trkUrl,      \* Track._url: the memoized stream URL, None before
    urlLog       \* log of the url() invocations: the answer and the outcome

callVars == <<amzn, jarDirty, calls, cookieFile, targetCookie>>
seVars   == <<seArgs, seForms, sePc, seR, seReqs, seResps, seError>>
libVars  == <<libPages, libPc, libData, libResults, libQuery, libYielded,
              libStarts>>
stVars   == <<stPc, stJson, stPageToken, stTracks, stYielded, stIter,
              stCallsBefore>>
albVars  == <<alb, albAccesses, albResult>>
entVars  == <<entIn, entPc, entOut, trkUrl, urlLog>>
notLibVars == <<stVars, seVars, albVars, entVars>>
notStVars  == <<libVars, seVars, albVars, entVars>>
notSeVars  == <<libVars, stVars, albVars, entVars>>
notAlbVars == <<libVars, stVars, seVars, entVars>>
notEntVars == <<libVars, stVars, seVars, albVars>>
vars     == <<amzn, jarDirty, calls,
              libPages, libPc, libData, libResults, libQuery, libYielded,
              libStarts,
              stPc, stJson, stPageToken, stTracks, stYielded, stIter,
              stCallsBefore,
              cookieFile, targetCookie,
              seArgs, seForms, sePc, seR, seReqs, seResps, seError,
              alb, albAccesses, albResult,
              entIn, entPc, entOut, trkUrl, urlLog>>

---------------------------------------------------------------------------
(* Bounds of the model.                                                    *)

MaxPages == 3      \* pages in the upstream library chain
MaxItems == 3      \* items in the whole upstream library
MaxBatch == 2      \* tracks in one answer of the station queue service
MaxStationCalls == 2   \* getNextTracks calls on the station
MaxIterations == 2     \* tracks() generators started on the station
MaxAuth == 2       \* sign-in submissions in one construction
MaxForce == 2      \* forced-sign-in requests in one construction
MaxCalls == 2      \* calls made directly on the Call Invoker
MaxAccess == 3     \* tracks() accesses on one album
MaxDropped == 2    \* keys left out of one payload handed to a normalizer
MaxUrlCalls == 2   \* url() invocations on one track
MaxListings == 2   \* albums_in_library() invocations on one session

---------------------------------------------------------------------------
(* Values.                                                                 *)

\* Python's None as a continuation token (and any other falsy token: the
\* code tests tokens by truth value).  Tokens proper are positive.
Null == 0

\* Python's None as the value of a field or argument that otherwise holds
\* text.
None == "None"

\* `if r['numTracks'] >= 4`
MinTracks == 4

AMAZON_PRIME_SUBSCRIPTION == "PRIME"
USER_AGENT ==
    "Mozilla/5.0 (X11; Ubuntu; Linux x86_64; rv:57.0) Gecko/20100101 Firefox/57.0"

RECURSIVE SumTo(_, _)
SumTo(f, n) == IF n = 0 THEN 0 ELSE f[n] + SumTo(f, n - 1)

\* `k in d`
Has(d, k) == k \in DOMAIN d

\* d.get(k, default)
GetOr(d, k, default) == IF Has(d, k) THEN d[k] ELSE default

\* d.get(k)
Get(d, k) == GetOr(d, k, None)

\* Truth value of a text-or-None value.
Truthy(v) == v # None /\ v # ""

\* `a or b`
Or(a, b) == IF Truthy(a) THEN a ELSE b

\* The object d with only the keys K.
Restrict(d, K) == [k \in K |-> d[k]]

\* The objects got from d by leaving out at most n of its keys.
Drops(d, n) ==
    { Restrict(d, K) :
        K \in { K \in SUBSET (DOMAIN d) : Cardinality((DOMAIN d) \ K) <= n } }

---------------------------------------------------------------------------
(* Configuration blobs and the session fields read from them.              *)

AMAZON_MUSIC_URL == "https://music.amazon.com"
AMAZON_SIGN_IN_PATH == "/ap/signin"
AMAZON_FORCE_SIGN_IN_PATH == "/gp/dmusic/cloudplayer/forceSignIn"

\* An attribute of the object that no statement has assigned yet.
Unset == "<unset>"

\* A key that a configuration blob lacks.
NoKey == "<no key>"

\* REGION_MAP.get(realm, realm[:2]), on the realms of the model.
RegionOf(realm) ==
    CASE realm = "USAmazon" -> "NA"
      [] realm = "EUAmazon" -> "EU"
      [] realm = "FEAmazon" -> "FE"
      [] realm = "CNAmazon" -> "CN"

\* 'https://' + returnUrlServer, on the servers of the model.
UrlOf(server) ==
    CASE server = "music.amazon.com" -> "https://music.amazon.com"
      [] server = "music.amazon.cn" -> "https://music.amazon.cn"

\* The keys of the blob in the order __init__ reads them once the customer
\* is recognized.
ConfigKeys ==
    <<"deviceId", "CSRFTokenConfig", "customerId", "deviceType",
      "musicTerritory", "i18n", "realm", "serverInfo">>

\* The values of one account's blob.
ConfigValues(v) ==
    IF v = 1
      THEN [deviceId |-> "dev1", csrf_token |-> "tok1", csrf_ts |-> "ts1",
            csrf_rnd |-> "rnd1", customerId |-> "cust1",
            deviceType |-> "type1", musicTerritory |-> "US",
            locale |-> "en_US", realm |-> "USAmazon",
            returnUrlServer |-> "music.amazon.com"]
      ELSE [deviceId |-> "dev2", csrf_token |-> "tok2", csrf_ts |-> "ts2",
            csrf_rnd |-> "rnd2", customerId |-> "cust2",
            deviceType |-> "type2", musicTerritory |-> "CN",
            locale |-> "zh_CN", realm |-> "CNAmazon",
            returnUrlServer |-> "music.amazon.cn"]

\* A parsed blob: the values, isRecognizedCustomer, and the key it lacks
\* (NoKey when complete).
Config(v, rec, missing) ==
    [kind |-> "config", values |-> ConfigValues(v),
     isRecognizedCustomer |-> rec, missing |-> missing]

\* A page with no line holding 'amznMusic.appConfig = '.
NoConfigLine ==
    [kind |-> "noline", values |-> ConfigValues(1),
     isRecognizedCustomer |-> 1, missing |-> NoKey]

\* The pages a response can end on: no blob line; a complete blob of either
\* account, recognized or not; a blob lacking 'isRecognizedCustomer'; a blob
\* of a recognized customer lacking one of the keys read after it; a blob of
\* an unrecognized customer lacking one.
Pages ==
    {NoConfigLine}
    \cup { Config(v, rec, NoKey) : v \in {1, 2}, rec \in {0, 1} }
    \cup { Config(1, 1, "isRecognizedCustomer") }
    \cup { Config(1, 1, ConfigKeys[i]) : i \in 1..Len(ConfigKeys) }
    \cup { Config(1, 0, "customerId") }

\* A page without a <form> element.
NoForm == [present |-> FALSE, action |-> None, inputs |-> <<>>]

\* An <input> of the form: its type, name and value attributes.
Input(type, name, value) == [type |-> type, name |-> name, value |-> value]

\* The sign-in form as the service usually serves it: hidden session fields,
\* one of them of no known meaning, and the visible credential inputs.
PlainForm ==
    [present |-> TRUE, action |-> "https://www.amazon.com/ap/signin",
     inputs |-> << Input("hidden", "appActionToken", "tok1"),
                   Input("hidden", "metadata1", "unknown1"),
                   Input("email", "email", ""),
                   Input("password", "password", ""),
                   Input("submit", "signIn", "") >>]

\* Sign-in forms: the usual one; one posted elsewhere with no hidden field;
\* the password step of a two-step sign-in, which carries the account name
\* in a hidden field named email; one with a hidden field named password;
\* and a page with no form at all.
Forms ==
    { PlainForm,
      [present |-> TRUE, action |-> "https://www.amazon.co.uk/ap/signin",
       inputs |-> << Input("email", "email", ""),
                     Input("password", "password", "") >>],
      [present |-> TRUE, action |-> "https://www.amazon.com/ap/signin",
       inputs |-> << Input("hidden", "appActionToken", "tok2"),
                     Input("hidden", "email", "e0"),
                     Input("password", "password", "") >>],
      [present |-> TRUE, action |-> "https://www.amazon.com/ap/signin",
       inputs |-> << Input("hidden", "password", ""),
                     Input("hidden", "appActionToken", "tok3") >>],
      NoForm }

\* The inputs of the form that are hidden and have the name k.
HiddenAt(form, k) ==
    { i \in 1..Len(form.inputs) :
        form.inputs[i].type = "hidden" /\ form.inputs[i].name = k }

\* The names of the hidden inputs of the form.
HiddenNames(form) ==
    { form.inputs[i].name : i \in { j \in 1..Len(form.inputs) :
                                       form.inputs[j].type = "hidden" } }

\* The `query` dict of _authenticate: email and password first, then every
\* hidden input assigned under its name, in document order.
AuthQuery(email, password, form) ==
    [k \in {"email", "password"} \cup HiddenNames(form) |->
       IF HiddenAt(form, k) # {}
         THEN LET last == CHOOSE i \in HiddenAt(form, k) :
                              \A j \in HiddenAt(form, k) : j <= i
              IN  form.inputs[last].value
       ELSE IF k = "email" THEN email
       ELSE password]

\* No form data: a GET.
NoQuery == [none |-> TRUE]

\* The responses a request of the constructor can get: bounced through the
\* sign-in path (the page is then the sign-in form), or not.
Responses ==
    { [signin |-> TRUE, page |-> NoConfigLine, form |-> f] : f \in seForms }
    \cup { [signin |-> FALSE, page |-> p, form |-> NoForm] : p \in Pages }

NoResponse == [signin |-> FALSE, page |-> NoConfigLine, form |-> NoForm]

\* The object before __init__ has assigned anything.
NewObject ==
    [email |-> Unset, password |-> Unset,
     device_id |-> Unset, csrf_token |-> Unset, csrf_ts |-> Unset,
     csrf_rnd |-> Unset, customer_id |-> Unset, device_type |-> Unset,
     territory |-> Unset, locale |-> Unset, region |-> Unset, url |-> Unset]

\* Position in ConfigKeys of the key whose value the field is read from.
KeyIndex(field) ==
    CASE field = "device_id" -> 1
      [] field \in {"csrf_token", "csrf_ts", "csrf_rnd"} -> 2
      [] field = "customer_id" -> 3
      [] field = "device_type" -> 4
      [] field = "territory" -> 5
      [] field = "locale" -> 6
      [] field = "region" -> 7
      [] field = "url" -> 8
      [] OTHER -> 0

\* The value __init__ assigns to a session field from the blob.
FieldValue(field, c) ==
    CASE field = "device_id" -> c.values.deviceId
      [] field = "csrf_token" -> c.values.csrf_token
      [] field = "csrf_ts" -> c.values.csrf_ts
      [] field = "csrf_rnd" -> c.values.csrf_rnd
      [] field = "customer_id" -> c.values.customerId
      [] field = "device_type" -> c.values.deviceType
      [] field = "territory" -> c.values.musicTerritory
      [] field = "locale" -> c.values.locale
      [] field = "region" -> RegionOf(c.values.realm)
      [] field = "url" -> UrlOf(c.values.returnUrlServer)

\* A blob taken to lack none of the keys.
MissingIndexNone(c) == Len(ConfigKeys) + 1

\* Position in ConfigKeys of the key the blob lacks; past the end if none
\* of them.
MissingIndex(c) ==
    IF \E i \in 1..Len(ConfigKeys) : ConfigKeys[i] = c.missing
      THEN CHOOSE i \in 1..Len(ConfigKeys) : ConfigKeys[i] = c.missing
      ELSE Len(ConfigKeys) + 1

\* The assignments of lines 125-135 in order, up to the first key that is
\* absent (a KeyError ends them there).
Populate(a, c) ==
    [f \in DOMAIN a |->
        IF KeyIndex(f) >= 1 /\ KeyIndex(f) < MissingIndex(c)
          THEN FieldValue(f, c) ELSE a[f]]

\* Credentials forgotten only in part.
EraseEmailOnly(a) == [a EXCEPT !.email = None]

\* self._email = None; self._password = None
EraseCredentials(a) == [a EXCEPT !.email = None, !.password = None]

\* The session a constructed AmazonMusic object holds; used by every call.
ReadySession ==
    Populate(EraseCredentials(NewObject), Config(1, 1, NoKey))

\* Absence of the region cookie.
NoCookie == "<no cookie>"

\* The value cookies.save() writes for the region cookie: save() writes the
\* jar, which holds the region cookie once it was loaded or set.
SavedTarget ==
    IF targetCookie.inJar THEN targetCookie.value ELSE NoCookie

---------------------------------------------------------------------------
(* AmazonMusic.call                                                        *)

\* A header that is not attached to the request.
NoHeader == "<absent>"

\* A request that is JSON-encoded whatever the target.
BuildRequestJson(endpoint, target, query) ==
    [method |-> "POST",
     url |-> <<amzn.url, amzn.region, "api", endpoint>>,
     userAgent |-> USER_AGENT,
     csrfToken |-> amzn.csrf_token,
     csrfRnd |-> amzn.csrf_rnd,
     csrfTs |-> amzn.csrf_ts,
     xRequestedWith |-> "XMLHttpRequest",
     amzTarget |-> target,
     contentType |-> "application/json",
     contentEncoding |-> "amz-1.0",
     data |-> [enc |-> "json", val |-> query]]

\* The request call() builds: headers and body encoding chosen from target.
\* The URL '{}/{}/api/{}' is kept as its parts.
BuildRequest(endpoint, target, query) ==
    [method |-> "POST",
     url |-> <<amzn.url, amzn.region, "api", endpoint>>,
     userAgent |-> USER_AGENT,
     csrfToken |-> amzn.csrf_token,
     csrfRnd |-> amzn.csrf_rnd,
     csrfTs |-> amzn.csrf_ts,
     xRequestedWith |-> "XMLHttpRequest",
     amzTarget |-> IF target = None THEN NoHeader ELSE target,
     contentType |-> IF target = None THEN NoHeader ELSE "application/json",
     contentEncoding |-> IF target = None THEN NoHeader ELSE "amz-1.0",
     data |-> IF target = None
                THEN [enc |-> "form", val |-> query]
                ELSE [enc |-> "json", val |-> query]]

\* How one call can end: the response is returned and decoded ("ok"), the
\* transport raises in session.post ("neterr"), or r.json() raises
\* ("badjson").
CallOutcomes == {"ok", "neterr", "badjson"}

\* cookies.save() is reached iff session.post returned.
CallSaves(outcome) == outcome # "neterr"

\* The whole of call(): the request is built and posted, the cookie jar is
\* saved when post returns, the decoded JSON is returned when outcome = "ok".
\* setc: the exchange stored new cookies in the in-memory jar.  resp: the
\* JSON the service answered with, which the caller gets when outcome = "ok".
DoCall(endpoint, target, query, outcome, setc, resp) ==
    /\ calls' = Append(calls, [endpoint |-> endpoint,
                               target |-> target,
                               query |-> query,
                               req |-> BuildRequest(endpoint, target, query),
                               outcome |-> outcome,
                               saved |-> CallSaves(outcome),
                               resp |-> resp])
    /\ jarDirty' = IF CallSaves(outcome) THEN FALSE ELSE (jarDirty \/ setc)
    /\ cookieFile' = IF CallSaves(outcome) THEN SavedTarget ELSE cookieFile
    /\ UNCHANGED <<amzn, targetCookie>>

---------------------------------------------------------------------------
(* Upstream library.                                                       *)

\* What the filter of albums_in_library reads of an item.
ItemKinds ==
    { [numTracks |-> MinTracks,     primeStatus |-> AMAZON_PRIME_SUBSCRIPTION],
      [numTracks |-> MinTracks - 1, primeStatus |-> AMAZON_PRIME_SUBSCRIPTION],
      [numTracks |-> MinTracks,     primeStatus |-> "NON_PRIME"],
      [numTracks |-> MinTracks - 1, primeStatus |-> "NON_PRIME"] }

\* Page lengths of a chain: one entry per page.
LibShapes ==
    { s \in UNION { [1..n -> 0..MaxItems] : n \in 1..MaxPages } :
        SumTo(s, Len(s)) <= MaxItems }

\* The chain with page lengths s and item kinds k (k[j] is the kind of the
\* j-th item in upstream order).  Items are identified by their upstream
\* position; page i carries token i when a page follows and Null otherwise.
LibChain(s, k) ==
    [i \in 1..Len(s) |->
        [searchReturnItemList |->
            [j \in 1..s[i] |->
                [id |-> SumTo(s, i - 1) + j,
                 numTracks |-> k[SumTo(s, i - 1) + j].numTracks,
                 primeStatus |-> k[SumTo(s, i - 1) + j].primeStatus]],
         nextResultsToken |-> IF i < Len(s) THEN i ELSE Null]]

LibChains ==
    UNION { { LibChain(s, k) : k \in [1..SumTo(s, Len(s)) -> ItemKinds] } :
            s \in LibShapes }

\* The chains whose albums are all PRIME (kept or dropped by their track
\* count alone).
LibChainsPrime ==
    { c \in LibChains :
        \A i \in 1..Len(c) : \A j \in 1..Len(c[i].searchReturnItemList) :
            c[i].searchReturnItemList[j].primeStatus = AMAZON_PRIME_SUBSCRIPTION }

\* The page the service returns for a searchLibrary query carrying token t.
LibServe(t) == libPages[t + 1]

---------------------------------------------------------------------------
(* AmazonMusic.albums_in_library                                           *)

\* A filter on the track count alone.
PassesFilterTracksOnly(r) == r.numTracks >= MinTracks

\* `r['numTracks'] >= 4 and r['metadata'].get('primeStatus') == 'PRIME'`
PassesFilter(r) == r.numTracks >= MinTracks /\ r.primeStatus = "PRIME"

NoData == [searchReturnItemList |-> <<>>, nextResultsToken |-> Null]

LibIdle ==
    /\ libPages = <<NoData>>
    /\ libPc = "none"
    /\ libData = NoData
    /\ libResults = <<>>
    /\ libQuery = Null
    /\ libYielded = <<>>
    /\ libStarts = <<>>

\* albums_in_library() is called: a generator object is made, no code of the
\* body runs.
LibInvoke ==
    /\ libPc = "none"
    /\ libPc' = "created"
    /\ libStarts' = Append(libStarts, Len(calls))
    /\ UNCHANGED <<libPages, libData, libResults, libQuery, libYielded>>
    /\ UNCHANGED <<callVars, notLibVars>>

\* First next(): the query is built with nextResultsToken None and the first
\* page is fetched into results.
LibFirstFetch ==
    /\ libPc = "created"
    /\ \E outcome \in CallOutcomes, setc \in BOOLEAN :
        /\ DoCall("cirrus/", None, [nextResultsToken |-> Null], outcome, setc,
                  LibServe(Null))
        /\ IF outcome = "ok"
             THEN /\ libData' = LibServe(Null)
                  /\ libResults' = LibServe(Null).searchReturnItemList
                  /\ libPc' = "loop"
             ELSE /\ libPc' = "failed"
                  /\ UNCHANGED <<libData, libResults>>
    /\ UNCHANGED <<libPages, libQuery, libYielded, libStarts>>
    /\ UNCHANGED notLibVars

\* A pop from the wrong end: results.pop().
PopLast(s) == [item |-> s[Len(s)], rest |-> SubSeq(s, 1, Len(s) - 1)]

\* results.pop(0), taking the oldest buffered item.
PopFirst(s) == [item |-> Head(s), rest |-> Tail(s)]

\* A pop that goes straight back to the loop test after a filtered item.
LibPopContinue ==
    /\ libPc = "loop"
    /\ libResults # <<>>
    /\ LET p == PopFirst(libResults) IN
        /\ libResults' = p.rest
        /\ IF PassesFilter(p.item)
             THEN /\ libYielded' = Append(libYielded, p.item.id)
                  /\ libPc' = "yielded"
             ELSE /\ libPc' = "loop"
                  /\ UNCHANGED libYielded
    /\ UNCHANGED <<libPages, libData, libQuery, libStarts>>
    /\ UNCHANGED <<callVars, notLibVars>>

\* `while results:` holds: pop the first item; yield it when it passes the
\* filter (the generator suspends at the yield).
LibPop ==
    /\ libPc = "loop"
    /\ libResults # <<>>
    /\ LET p == PopFirst(libResults) IN
        /\ libResults' = p.rest
        /\ IF PassesFilter(p.item)
             THEN /\ libYielded' = Append(libYielded, p.item.id)
                  /\ libPc' = "yielded"
             ELSE /\ libPc' = "refill"
                  /\ UNCHANGED libYielded
    /\ UNCHANGED <<libPages, libData, libQuery, libStarts>>
    /\ UNCHANGED <<callVars, notLibVars>>

\* `while results:` fails: the generator returns.
LibEnd ==
    /\ libPc = "loop"
    /\ libResults = <<>>
    /\ libPc' = "done"
    /\ UNCHANGED <<libPages, libData, libResults, libQuery, libYielded,
                   libStarts>>
    /\ UNCHANGED <<callVars, notLibVars>>

\* A refill test that looks at the token alone.
LibMustFetchAhead == libData.nextResultsToken # Null

\* `if not results and data['nextResultsToken']:`
LibMustFetch == libResults = <<>> /\ libData.nextResultsToken # Null

\* A refill that swallows the error of a failed fetch and goes on with what
\* it has.
LibRefillFetchSwallowing ==
    /\ libPc \in {"yielded", "refill"}
    /\ LibMustFetch
    /\ libQuery' = libData.nextResultsToken
    /\ \E outcome \in CallOutcomes, setc \in BOOLEAN :
        /\ DoCall("cirrus/", None,
                  [nextResultsToken |-> libData.nextResultsToken], outcome, setc,
                  LibServe(libData.nextResultsToken))
        /\ IF outcome = "ok"
             THEN /\ libData' = LibServe(libData.nextResultsToken)
                  /\ libResults' = libResults \o
                        LibServe(libData.nextResultsToken).searchReturnItemList
             ELSE UNCHANGED <<libData, libResults>>
        /\ libPc' = "loop"
    /\ UNCHANGED <<libPages, libYielded, libStarts>>
    /\ UNCHANGED notLibVars

\* After an item (on resuming from the yield, or at once for a filtered
\* item): the buffer is empty and the last page carried a token, so the next
\* page is fetched with that token and appended.
LibRefillFetch ==
    /\ libPc \in {"yielded", "refill"}
    /\ LibMustFetch
    /\ libQuery' = libData.nextResultsToken
    /\ \E outcome \in CallOutcomes, setc \in BOOLEAN :
        /\ DoCall("cirrus/", None,
                  [nextResultsToken |-> libData.nextResultsToken], outcome, setc,
                  LibServe(libData.nextResultsToken))
        /\ IF outcome = "ok"
             THEN /\ libData' = LibServe(libData.nextResultsToken)
                  /\ libResults' = libResults \o
                        LibServe(libData.nextResultsToken).searchReturnItemList
                  /\ libPc' = "loop"
             ELSE /\ libPc' = "failed"
                  /\ UNCHANGED <<libData, libResults>>
    /\ UNCHANGED <<libPages, libYielded, libStarts>>
    /\ UNCHANGED notLibVars

\* albums_in_library() is called again while an earlier generator is
\* suspended or over (the consumer has control): a new generator object with
\* its own query, data and results; the earlier one is dropped.
LibRelist ==
    /\ libPc \in {"created", "yielded", "done", "failed"}
    /\ Len(libStarts) < MaxListings
    /\ libPc' = "created"
    /\ libStarts' = Append(libStarts, Len(calls))
    /\ libData' = NoData
    /\ libResults' = <<>>
    /\ libQuery' = Null
    /\ libYielded' = <<>>
    /\ UNCHANGED libPages
    /\ UNCHANGED <<callVars, notLibVars>>

\* After an item: nothing to fetch, back to the loop test.
LibRefillSkip ==
    /\ libPc \in {"yielded", "refill"}
    /\ ~LibMustFetch
    /\ libPc' = "loop"
    /\ UNCHANGED <<libPages, libData, libResults, libQuery, libYielded,
                   libStarts>>
    /\ UNCHANGED <<callVars, notLibVars>>

---------------------------------------------------------------------------
(* Station: AmazonMusic.station and Station.tracks                         *)

CREATE_QUEUE == "mpqs/voiceenabled/createQueue"
CREATE_QUEUE_TARGET ==
    "com.amazon.musicplayqueueservice.model.client.external.voiceenabled.MusicPlayQueueServiceExternalVoiceEnabledClient.createQueue"
GET_NEXT_TRACKS == "mpqs/voiceenabled/getNextTracks"
GET_NEXT_TRACKS_TARGET ==
    "com.amazon.musicplayqueueservice.model.client.external.voiceenabled.MusicPlayQueueServiceExternalVoiceEnabledClient.getNextTracks"

\* 'numberOfTracks': 10
NumberOfTracks == 10

\* 'customerInfo' of the station requests.
CustomerInfo ==
    [deviceId |-> amzn.device_id, deviceType |-> amzn.device_type,
     musicTerritory |-> amzn.territory, customerId |-> amzn.customer_id]

\* The n tracks of the c-th answer of the queue service (0: the creating
\* call), identified by answer and position.
Batch(c, n) == [j \in 1..n |-> [batch |-> c, pos |-> j]]

\* The answers the service can give to createQueue.
CreateQueueResponses ==
    { [queue |-> [pageToken |-> t], trackMetadataList |-> Batch(0, n)] :
        n \in 0..MaxBatch, t \in {Null, 1} }

\* The answers the service can give to the c-th getNextTracks call.
NextTracksResponses(c) ==
    { [nextPageToken |-> t, trackMetadataList |-> Batch(c, n)] :
        n \in 0..MaxBatch, t \in {Null, c + 1} }

\* The getNextTracks calls logged so far.
NextTracksCalls == SelectSeq(calls, LAMBDA c : c.endpoint = GET_NEXT_TRACKS)

StIdle ==
    /\ stPc = "nostation"
    /\ stJson = <<>>
    /\ stPageToken = Null
    /\ stTracks = <<>>
    /\ stYielded = <<>>
    /\ stIter = 0
    /\ stCallsBefore = 0

\* A request that forgets the station's cursor.
NextTracksQueryNoToken ==
    [pageToken |-> Null, numberOfTracks |-> NumberOfTracks,
     customerInfo |-> CustomerInfo]

\* The body of the getNextTracks request.
NextTracksQuery ==
    [pageToken |-> stPageToken, numberOfTracks |-> NumberOfTracks,
     customerInfo |-> CustomerInfo]

\* AmazonMusic.station(id): one createQueue call; Station.__init__ keeps the
\* answer's tracks and page token.
StCreate ==
    /\ stPc = "nostation"
    /\ calls = <<>>
    /\ \E outcome \in CallOutcomes, setc \in BOOLEAN,
          resp \in CreateQueueResponses :
        /\ DoCall(CREATE_QUEUE, CREATE_QUEUE_TARGET,
                  [identifier |-> "station1", identifierType |-> "STATION_KEY",
                   customerInfo |-> CustomerInfo], outcome, setc, resp)
        /\ IF outcome = "ok"
             THEN /\ stPc' = "station"
                  /\ stJson' = resp.trackMetadataList
                  /\ stPageToken' = resp.queue.pageToken
             ELSE UNCHANGED <<stPc, stJson, stPageToken>>
    /\ UNCHANGED <<stTracks, stYielded, stIter, stCallsBefore>>
    /\ UNCHANGED notStVars

\* A tracks() that rewinds the station's cursor to the creating call's.
StInvokeRewinding ==
    /\ stPc # "nostation"
    /\ stIter < MaxIterations
    /\ stPc' = "created"
    /\ stIter' = stIter + 1
    /\ stTracks' = <<>>
    /\ stYielded' = <<>>
    /\ stCallsBefore' = Len(calls)
    /\ stPageToken' = calls[1].resp.queue.pageToken
    /\ UNCHANGED stJson
    /\ UNCHANGED <<callVars, notStVars>>

\* station.tracks() is called: a new generator object is made (an earlier
\* one is dropped), no code of the body runs.
StInvoke ==
    /\ stPc # "nostation"
    /\ stIter < MaxIterations
    /\ stPc' = "created"
    /\ stIter' = stIter + 1
    /\ stTracks' = <<>>
    /\ stYielded' = <<>>
    /\ stCallsBefore' = Len(calls)
    /\ UNCHANGED <<stJson, stPageToken>>
    /\ UNCHANGED <<callVars, notStVars>>

\* First next(): tracks = [] extended by the station's initial batch.
StStart ==
    /\ stPc = "created"
    /\ stTracks' = stJson
    /\ stPc' = "loop"
    /\ UNCHANGED <<stJson, stPageToken, stYielded, stIter, stCallsBefore>>
    /\ UNCHANGED <<callVars, notStVars>>

\* `while tracks:` holds: yield Track(tracks.pop(0)).
StYield ==
    /\ stPc = "loop"
    /\ stTracks # <<>>
    /\ LET p == PopFirst(stTracks) IN
        /\ stTracks' = p.rest
        /\ stYielded' = Append(stYielded, p.item)
    /\ stPc' = "yielded"
    /\ UNCHANGED <<stJson, stPageToken, stIter, stCallsBefore>>
    /\ UNCHANGED <<callVars, notStVars>>

\* `while tracks:` fails: the generator returns.
StEnd ==
    /\ stPc = "loop"
    /\ stTracks = <<>>
    /\ stPc' = "done"
    /\ UNCHANGED <<stJson, stPageToken, stTracks, stYielded, stIter,
                   stCallsBefore>>
    /\ UNCHANGED <<callVars, notStVars>>

\* Resuming from the yield with `not tracks`: getNextTracks is called with
\* the station's page token, whatever it is; the answer's token replaces it
\* and the answer's tracks are appended.
StRefill ==
    /\ stPc = "yielded"
    /\ stTracks = <<>>
    /\ Len(NextTracksCalls) < MaxStationCalls
    /\ \E outcome \in CallOutcomes, setc \in BOOLEAN,
          resp \in NextTracksResponses(Len(NextTracksCalls) + 1) :
        /\ DoCall(GET_NEXT_TRACKS, GET_NEXT_TRACKS_TARGET, NextTracksQuery,
                  outcome, setc, resp)
        /\ IF outcome = "ok"
             THEN /\ stPageToken' = resp.nextPageToken
                  /\ stTracks' = stTracks \o resp.trackMetadataList
                  /\ stPc' = "loop"
             ELSE /\ stPc' = "failed"
                  /\ UNCHANGED <<stPageToken, stTracks>>
    /\ UNCHANGED <<stJson, stYielded, stIter, stCallsBefore>>
    /\ UNCHANGED notStVars

\* Resuming from the yield with tracks still buffered: back to the loop test.
StContinue ==
    /\ stPc = "yielded"
    /\ stTracks # <<>>
    /\ stPc' = "loop"
    /\ UNCHANGED <<stJson, stPageToken, stTracks, stYielded, stIter,
                   stCallsBefore>>
    /\ UNCHANGED <<callVars, notStVars>>

---------------------------------------------------------------------------
(* Session construction: AmazonMusic.__init__ and _authenticate            *)

\* The constructor has returned the session (the state the other
\* specifications start from).
SeDone ==
    /\ seArgs = [email |-> "e1", password |-> "p1"]
    /\ seForms = {PlainForm}
    /\ sePc = "ready"
    /\ seR = NoResponse
    /\ seReqs = <<>>
    /\ seResps = <<>>
    /\ seError = None

\* The requests of one kind logged so far.
ReqsOfKind(k) == SelectSeq(seReqs, LAMBDA q : q.kind = k)

\* `r.history and any(h.status_code == 302 and AMAZON_SIGN_IN_PATH in
\* h.headers['Location'] for h in r.history)`
IsBounced(r) == r.signin

\* A forced sign-in whatever the blob says.
NeedsForceSignInAlways(c) == TRUE

\* No forced sign-in whatever the blob says.
NeedsForceSignInNever(c) == FALSE

\* `amzn_music_config['isRecognizedCustomer'] == 0`
NeedsForceSignIn(c) == c.isRecognizedCustomer = 0

\* A region cookie always made up with the default entry point.
LoadedTargetDefault == [value |-> AMAZON_MUSIC_URL, inJar |-> FALSE]

\* The region cookie found in the loaded jar, or the one made up with the
\* default entry point (not in the jar).
LoadedTarget ==
    IF cookieFile # NoCookie
      THEN [value |-> cookieFile, inJar |-> TRUE]
      ELSE [value |-> AMAZON_MUSIC_URL, inJar |-> FALSE]

\* How a request of the constructor can end: a response, or the transport
\* raising.
SeOutcomes == {"ok", "neterr"}

\* Lines 58-93: the jar is loaded, the region cookie found or made up, the
\* credentials stored, the home page requested at the region cookie's value,
\* and the jar saved.
SeHome ==
    /\ sePc = "init"
    /\ targetCookie' = LoadedTarget
    /\ amzn' = [NewObject EXCEPT !.email = seArgs.email,
                                 !.password = seArgs.password]
    /\ seReqs' = Append(seReqs, [kind |-> "home", url |-> LoadedTarget.value,
                                 email |-> None, password |-> None,
                                 data |-> NoQuery])
    /\ \E outcome \in SeOutcomes, setc \in BOOLEAN, resp \in Responses :
        IF outcome = "ok"
          THEN /\ seR' = resp
               /\ seResps' = Append(seResps, resp)
               /\ jarDirty' = FALSE
               /\ sePc' = "loop"
               /\ UNCHANGED seError
          ELSE /\ jarDirty' = (jarDirty \/ setc)
               /\ sePc' = "failed"
               /\ seError' = "transport"
               /\ UNCHANGED <<seR, seResps>>
    /\ UNCHANGED <<cookieFile, calls, seArgs, seForms>>
    /\ UNCHANGED notSeVars

\* The request _authenticate posts for the form in hand.
AuthRequest(query, form) ==
    [kind |-> "auth", url |-> form.action,
     email |-> query["email"], password |-> query["password"],
     data |-> query]

\* _authenticate(r), called while r was bounced through the sign-in path:
\* the query is built from the stored credentials and the hidden inputs of
\* the page's form, posted to the form's action, and the jar saved.  A page
\* without a form raises AttributeError before anything is sent.
SeAuthenticate ==
    /\ sePc = "loop"
    /\ IsBounced(seR)
    /\ Len(ReqsOfKind("auth")) < MaxAuth
    /\ IF ~seR.form.present
         THEN /\ sePc' = "failed"
              /\ seError' = "AttributeError"
              /\ UNCHANGED <<seR, seReqs, seResps, jarDirty, cookieFile>>
         ELSE /\ seReqs' = Append(seReqs,
                                  AuthRequest(AuthQuery(amzn.email,
                                                        amzn.password,
                                                        seR.form),
                                              seR.form))
              /\ \E outcome \in SeOutcomes, setc \in BOOLEAN,
                    resp \in Responses :
                  IF outcome = "ok"
                    THEN /\ seR' = resp
                         /\ seResps' = Append(seResps, resp)
                         /\ jarDirty' = FALSE
                         /\ cookieFile' = SavedTarget
                         /\ UNCHANGED <<sePc, seError>>
                    ELSE /\ jarDirty' = (jarDirty \/ setc)
                         /\ sePc' = "failed"
                         /\ seError' = "transport"
                         /\ UNCHANGED <<seR, seResps, cookieFile>>
    /\ UNCHANGED <<amzn, targetCookie, calls, seArgs, seForms>>
    /\ UNCHANGED notSeVars

\* A failed parse that asks for a forced sign-in instead of raising.
SeNoConfigRetry ==
    /\ sePc = "loop"
    /\ ~IsBounced(seR)
    /\ seR.page.kind = "noline"
    /\ Len(ReqsOfKind("force")) < MaxForce
    /\ seReqs' = Append(seReqs, [kind |-> "force",
                                 url |-> AMAZON_FORCE_SIGN_IN_PATH,
                                 email |-> None, password |-> None,
                                 data |-> NoQuery])
    /\ \E resp \in Responses :
        /\ seR' = resp
        /\ seResps' = Append(seResps, resp)
    /\ UNCHANGED <<amzn, jarDirty, cookieFile, targetCookie, calls, seArgs,
                   seForms, sePc, seError>>
    /\ UNCHANGED notSeVars

\* Lines 105-112: no line of the page holds the blob; the constructor
\* raises.
SeNoConfig ==
    /\ sePc = "loop"
    /\ ~IsBounced(seR)
    /\ seR.page.kind = "noline"
    /\ sePc' = "failed"
    /\ seError' = "appConfig could not be found"
    /\ UNCHANGED <<amzn, jarDirty, cookieFile, targetCookie, calls, seArgs,
                   seForms, seR, seReqs, seResps>>
    /\ UNCHANGED notSeVars

\* Line 114 on a blob without 'isRecognizedCustomer': KeyError.
SeNoRecognizedKey ==
    /\ sePc = "loop"
    /\ ~IsBounced(seR)
    /\ seR.page.kind = "config"
    /\ seR.page.missing = "isRecognizedCustomer"
    /\ sePc' = "failed"
    /\ seError' = "KeyError"
    /\ UNCHANGED <<amzn, jarDirty, cookieFile, targetCookie, calls, seArgs,
                   seForms, seR, seReqs, seResps>>
    /\ UNCHANGED notSeVars

\* Lines 114-119: the customer is not recognized; the forced-sign-in page is
\* requested and the loop starts over on its response.  The jar is not
\* saved here.
SeForceSignIn ==
    /\ sePc = "loop"
    /\ ~IsBounced(seR)
    /\ seR.page.kind = "config"
    /\ seR.page.missing # "isRecognizedCustomer"
    /\ NeedsForceSignIn(seR.page)
    /\ Len(ReqsOfKind("force")) < MaxForce
    /\ seReqs' = Append(seReqs, [kind |-> "force",
                                 url |-> AMAZON_FORCE_SIGN_IN_PATH,
                                 email |-> None, password |-> None,
                                 data |-> NoQuery])
    /\ \E outcome \in SeOutcomes, setc \in BOOLEAN, resp \in Responses :
        /\ jarDirty' = (jarDirty \/ setc)
        /\ IF outcome = "ok"
             THEN /\ seR' = resp
                  /\ seResps' = Append(seResps, resp)
                  /\ UNCHANGED <<sePc, seError>>
             ELSE /\ sePc' = "failed"
                  /\ seError' = "transport"
                  /\ UNCHANGED <<seR, seResps>>
    /\ UNCHANGED <<amzn, cookieFile, targetCookie, calls, seArgs, seForms>>
    /\ UNCHANGED notSeVars

\* _authenticate(r) once the request log is full: the same submission, which
\* the log (the first MaxAuth submissions) no longer records.
SeAuthenticateOn ==
    /\ sePc = "loop"
    /\ IsBounced(seR)
    /\ Len(ReqsOfKind("auth")) >= MaxAuth
    /\ IF ~seR.form.present
         THEN /\ sePc' = "failed"
              /\ seError' = "AttributeError"
              /\ UNCHANGED <<seR, jarDirty, cookieFile>>
         ELSE \E outcome \in SeOutcomes, setc \in BOOLEAN,
                 resp \in Responses :
                  IF outcome = "ok"
                    THEN /\ seR' = resp
                         /\ jarDirty' = FALSE
                         /\ cookieFile' = SavedTarget
                         /\ UNCHANGED <<sePc, seError>>
                    ELSE /\ jarDirty' = (jarDirty \/ setc)
                         /\ sePc' = "failed"
                         /\ seError' = "transport"
                         /\ UNCHANGED <<seR, cookieFile>>
    /\ UNCHANGED <<amzn, targetCookie, calls, seArgs, seForms, seReqs,
                   seResps>>
    /\ UNCHANGED notSeVars

\* Lines 114-119 once the request log is full: the same forced sign-in,
\* which the log (the first MaxForce of them) no longer records.
SeForceSignInOn ==
    /\ sePc = "loop"
    /\ ~IsBounced(seR)
    /\ seR.page.kind = "config"
    /\ seR.page.missing # "isRecognizedCustomer"
    /\ NeedsForceSignIn(seR.page)
    /\ Len(ReqsOfKind("force")) >= MaxForce
    /\ \E outcome \in SeOutcomes, setc \in BOOLEAN, resp \in Responses :
        /\ jarDirty' = (jarDirty \/ setc)
        /\ IF outcome = "ok"
             THEN /\ seR' = resp
                  /\ UNCHANGED <<sePc, seError>>
             ELSE /\ sePc' = "failed"
                  /\ seError' = "transport"
                  /\ UNCHANGED seR
    /\ UNCHANGED <<amzn, cookieFile, targetCookie, calls, seArgs, seForms,
                   seReqs, seResps>>
    /\ UNCHANGED notSeVars

\* Lines 121-141: the customer is recognized; the credentials are erased,
\* the session fields read from the blob (a missing key raises KeyError),
\* the region cookie set to the base URL and the jar saved.
SeFinish ==
    /\ sePc = "loop"
    /\ ~IsBounced(seR)
    /\ seR.page.kind = "config"
    /\ seR.page.missing # "isRecognizedCustomer"
    /\ ~NeedsForceSignIn(seR.page)
    /\ amzn' = Populate(EraseCredentials(amzn), seR.page)
    /\ IF MissingIndex(seR.page) <= Len(ConfigKeys)
         THEN /\ sePc' = "failed"
              /\ seError' = "KeyError"
              /\ UNCHANGED <<jarDirty, cookieFile, targetCookie>>
         ELSE /\ targetCookie' = [value |-> amzn'.url, inJar |-> TRUE]
              /\ cookieFile' = amzn'.url
              /\ jarDirty' = FALSE
              /\ sePc' = "ready"
              /\ UNCHANGED seError
    /\ UNCHANGED <<calls, seArgs, seForms, seR, seReqs, seResps>>
    /\ UNCHANGED notSeVars

---------------------------------------------------------------------------
(* Album: Album.__init__, Album.tracks and AmazonMusic.album               *)

LOOKUP == "muse/legacy/lookup"
LOOKUP_TARGET == "com.amazon.musicensembleservice.MusicEnsembleService.lookup"

\* Python's None as a release date.
NoDate == [none |-> TRUE]

\* A quotient cut down to whole seconds.
DivideBy1000Floor(ms) == [whole |-> ms \div 1000, thousandths |-> 0]

\* `data['originalReleaseDate'] / 1000`: the exact quotient, as whole
\* seconds and the thousandths left over.
DivideBy1000(ms) == [whole |-> ms \div 1000, thousandths |-> ms % 1000]

\* Album.__init__(amzn, data): the summary shape when data has 'metadata',
\* the full shape otherwise.
AlbumInit(data) ==
    IF "metadata" \in DOMAIN data
      THEN [json |-> data.metadata,
            track_count |-> data.numTracks,
            id |-> data.metadata.albumAsin,
            cover_url |-> GetOr(data.metadata, "albumCoverImageFull",
                                Get(data.metadata, "albumCoverImageMedium")),
            name |-> data.metadata.albumName,
            artist |-> data.metadata.albumArtistName,
            genre |-> data.metadata.primaryGenre,
            rating |-> None,
            release_date |-> NoDate]
      ELSE [json |-> data,
            track_count |-> data.trackCount,
            id |-> data.asin,
            cover_url |-> data.image,
            name |-> data.title,
            artist |-> data.artist.name,
            genre |-> Get(data.productDetails, "primaryGenreName"),
            rating |-> data.reviews.average,
            release_date |-> DivideBy1000(data.originalReleaseDate)]

\* An item of the library listing (the summary shape).
SummaryData(asin) ==
    [numTracks |-> 5,
     metadata |-> [albumAsin |-> asin, albumName |-> "name",
                   albumArtistName |-> "artist", primaryGenre |-> "genre",
                   albumCoverImageFull |-> "cover", primeStatus |-> "PRIME"]]

\* A record of the lookup service (the full shape), without its track list.
FullDataNoTracks(asin, average, ms) ==
    [asin |-> asin, title |-> "name", artist |-> [name |-> "artist"],
     image |-> "cover", productDetails |-> [primaryGenreName |-> "genre"],
     reviews |-> [average |-> average], trackCount |-> 2,
     originalReleaseDate |-> ms]

\* A record of the lookup service with its track list.
FullData(asin, average, ms) ==
    [asin |-> asin, title |-> "name", artist |-> [name |-> "artist"],
     image |-> "cover", productDetails |-> [primaryGenreName |-> "genre"],
     reviews |-> [average |-> average], trackCount |-> 2,
     originalReleaseDate |-> ms, tracks |-> <<"track1", "track2">>]

\* The answers the lookup service can give for an album id: a list with the
\* full record, with or without tracks, or an empty list.
LookupResponses(asin) ==
    {[albumList |-> <<>>]}
    \cup { [albumList |-> <<FullData(asin, average, ms)>>] :
             average \in {"4.5", "3.0"}, ms \in {1500, 86400000} }
    \cup { [albumList |-> <<FullDataNoTracks(asin, "4.5", 1500)>>] }

\* The body of the lookup request of AmazonMusic.album(id).
LookupQuery(id) ==
    [asins |-> <<id>>,
     features |-> <<"popularity", "expandTracklist",
                    "trackLibraryAvailability",
                    "collectionLibraryAvailability">>,
     requestedContent |-> AMAZON_PRIME_SUBSCRIPTION,
     deviceId |-> amzn.device_id, deviceType |-> amzn.device_type,
     musicTerritory |-> amzn.territory, customerId |-> amzn.customer_id]

\* An album that looks itself up on every access.
NeedsFullDataAlways(a) == TRUE

\* `if 'tracks' not in self.json:`
NeedsFullData(a) == "tracks" \notin DOMAIN a.json

\* What tracks() gives back.
TracksError == [ok |-> FALSE, tracks |-> <<>>]
TracksOf(a) ==
    IF "tracks" \in DOMAIN a.json
      THEN [ok |-> TRUE, tracks |-> a.json.tracks]
      ELSE TracksError

NoAlbum == [json |-> [none |-> TRUE]]

AlbIdle ==
    /\ alb = NoAlbum
    /\ albAccesses = 0
    /\ albResult = TracksError

\* album.tracks() on an object that holds its tracks: the list is returned.
AlbTracksHeld ==
    /\ albAccesses < MaxAccess
    /\ ~NeedsFullData(alb)
    /\ albAccesses' = albAccesses + 1
    /\ albResult' = TracksOf(alb)
    /\ UNCHANGED alb
    /\ UNCHANGED <<callVars, notAlbVars>>

\* album.tracks() on an object without tracks: AmazonMusic.album(self.id)
\* looks the album up and builds an Album a from ['albumList'][0]; the
\* object re-runs __init__ on a.json; then the list is read (KeyError if the
\* record has no tracks).  A failed call or an empty albumList raises before
\* the object is touched.
AlbTracksLookup ==
    /\ albAccesses < MaxAccess
    /\ NeedsFullData(alb)
    /\ albAccesses' = albAccesses + 1
    /\ \E outcome \in CallOutcomes, setc \in BOOLEAN,
          resp \in LookupResponses(alb.id) :
        /\ DoCall(LOOKUP, LOOKUP_TARGET, LookupQuery(alb.id), outcome, setc,
                  resp)
        /\ IF outcome = "ok" /\ resp.albumList # <<>>
             THEN /\ alb' = AlbumInit(AlbumInit(resp.albumList[1]).json)
                  /\ albResult' = TracksOf(alb')
             ELSE /\ albResult' = TracksError
                  /\ UNCHANGED alb
    /\ UNCHANGED notAlbVars

---------------------------------------------------------------------------
(* Entity normalizers: Track, Album, Playlist and Station __init__         *)

NoPayload == [none |-> TRUE]
NoEntity == [none |-> TRUE]
NoError == [type |-> None, field |-> None, payload |-> NoPayload]

\* __init__ returned: the object exists.
Built(v) == [ok |-> TRUE, value |-> v, error |-> NoError]

\* __init__ raised: no object exists.
Raised(e) == [ok |-> FALSE, value |-> NoEntity, error |-> e]

\* A KeyError as the dict lookup raises it: args = (key,).  The payload is
\* not part of it.
KeyErrorBare(field, data) ==
    [type |-> "KeyError", field |-> field, payload |-> NoPayload]

\* A re-raise that names the key and leaves the payload out.
KeyErrorKeyOnly(field, data) ==
    [type |-> "KeyError", field |-> field, payload |-> NoPayload]

\* A KeyError re-raised with args = ('<key> not found in <json of data>',).
KeyErrorEchoed(field, data) ==
    [type |-> "KeyError", field |-> field, payload |-> data]

\* The first key Track.__init__ looks up with [] and does not find, in the
\* order of its statements; None if every such lookup succeeds.
TrackMissing(data) ==
    IF ~Truthy(Get(data, "name")) /\ ~Has(data, "title") THEN "title"
    ELSE IF ~Truthy(Get(data, "artistName")) /\ ~Has(data, "artist")
      THEN "artist"
    ELSE IF ~Truthy(Get(data, "artistName")) /\ ~Has(data.artist, "name")
      THEN "name"
    ELSE IF ~Has(data, "album") THEN "album"
    ELSE IF Has(data, "identifierType") /\ ~Has(data, "identifier")
      THEN "identifier"
    ELSE IF ~Has(data, "identifierType") /\ ~Has(data, "asin") THEN "asin"
    ELSE None

\* A track that is always identified by ASIN.
TrackFieldsAsinOnly(data) ==
    LET artist == IF Truthy(Get(data, "artistName")) THEN data.artistName
                  ELSE data.artist.name
    IN  [json |-> data,
         name |-> IF Truthy(Get(data, "name")) THEN data.name ELSE data.title,
         artist |-> artist,
         album |-> Or(Get(data.album, "name"), Get(data.album, "title")),
         album_artist |-> Or(Get(data.album, "artistName"),
                             GetOr(data.album, "albumArtistName", artist)),
         cover_url |-> IF Has(data, "artUrlMap")
                         THEN GetOr(data.artUrlMap, "FULL",
                                    Get(data.artUrlMap, "LARGE"))
                       ELSE IF Has(data.album, "image") THEN data.album.image
                       ELSE None,
         identifier_type |-> "ASIN",
         identifier |-> IF Has(data, "asin") THEN data.asin
                        ELSE data.identifier,
         duration |-> GetOr(data, "durationInSeconds", Get(data, "duration"))]

\* The attributes Track.__init__ assigns when no lookup fails.
TrackFields(data) ==
    LET artist == IF Truthy(Get(data, "artistName")) THEN data.artistName
                  ELSE data.artist.name
    IN  [json |-> data,
         name |-> IF Truthy(Get(data, "name")) THEN data.name ELSE data.title,
         artist |-> artist,
         album |-> Or(Get(data.album, "name"), Get(data.album, "title")),
         album_artist |-> Or(Get(data.album, "artistName"),
                             GetOr(data.album, "albumArtistName", artist)),
         cover_url |-> IF Has(data, "artUrlMap")
                         THEN GetOr(data.artUrlMap, "FULL",
                                    Get(data.artUrlMap, "LARGE"))
                       ELSE IF Has(data.album, "image") THEN data.album.image
                       ELSE None,
         identifier_type |-> IF Has(data, "identifierType")
                               THEN data.identifierType ELSE "ASIN",
         identifier |-> IF Has(data, "identifierType")
                          THEN data.identifier ELSE data.asin,
         duration |-> GetOr(data, "durationInSeconds", Get(data, "duration"))]

\* Track(amzn, data)
TrackInit(data) ==
    IF TrackMissing(data) # None
      THEN Raised(KeyErrorEchoed(TrackMissing(data), data))
      ELSE Built(TrackFields(data))

\* The first key Album.__init__ looks up with [] and does not find.
AlbumMissing(data) ==
    IF Has(data, "metadata")
      THEN IF ~Has(data, "numTracks") THEN "numTracks"
           ELSE IF ~Has(data.metadata, "albumAsin") THEN "albumAsin"
           ELSE IF ~Has(data.metadata, "albumName") THEN "albumName"
           ELSE IF ~Has(data.metadata, "albumArtistName")
             THEN "albumArtistName"
           ELSE IF ~Has(data.metadata, "primaryGenre") THEN "primaryGenre"
           ELSE None
      ELSE IF ~Has(data, "asin") THEN "asin"
           ELSE IF ~Has(data, "image") THEN "image"
           ELSE IF ~Has(data, "title") THEN "title"
           ELSE IF ~Has(data, "artist") THEN "artist"
           ELSE IF ~Has(data.artist, "name") THEN "name"
           ELSE IF ~Has(data, "productDetails") THEN "productDetails"
           ELSE IF ~Has(data, "reviews") THEN "reviews"
           ELSE IF ~Has(data.reviews, "average") THEN "average"
           ELSE IF ~Has(data, "trackCount") THEN "trackCount"
           ELSE IF ~Has(data, "originalReleaseDate")
             THEN "originalReleaseDate"
           ELSE None

\* Album(amzn, data)
AlbumNew(data) ==
    IF AlbumMissing(data) # None
      THEN Raised(KeyErrorBare(AlbumMissing(data), data))
      ELSE Built(AlbumInit(data))

\* The first key Playlist.__init__ looks up and does not find.
PlaylistMissing(data) ==
    IF ~Has(data, "asin") THEN "asin"
    ELSE IF ~Has(data, "image") THEN "image"
    ELSE IF ~Has(data, "title") THEN "title"
    ELSE IF ~Has(data, "primaryGenre") THEN "primaryGenre"
    ELSE IF ~Has(data, "reviews") THEN "reviews"
    ELSE IF ~Has(data.reviews, "average") THEN "average"
    ELSE IF ~Has(data, "trackCount") THEN "trackCount"
    ELSE None

\* Playlist(amzn, data)
PlaylistInit(data) ==
    IF PlaylistMissing(data) # None
      THEN Raised(KeyErrorBare(PlaylistMissing(data), data))
      ELSE Built([json |-> data, id |-> data.asin, cover_url |-> data.image,
                  name |-> data.title, genre |-> data.primaryGenre,
                  rating |-> data.reviews.average,
                  track_count |-> data.trackCount])

\* The first key Station.__init__ looks up and does not find.
StationMissing(data) ==
    IF ~Has(data, "queue") THEN "queue"
    ELSE IF ~Has(data.queue, "queueMetadata") THEN "queueMetadata"
    ELSE IF ~Has(data.queue.queueMetadata, "imageUrlMap") THEN "imageUrlMap"
    ELSE IF ~Has(data.queue.queueMetadata.imageUrlMap, "FULL") THEN "FULL"
    ELSE IF ~Has(data.queue.queueMetadata, "title") THEN "title"
    ELSE IF ~Has(data.queue, "pageToken") THEN "pageToken"
    ELSE None

\* Station(amzn, asin, data)
StationInit(asin, data) ==
    IF StationMissing(data) # None
      THEN Raised(KeyErrorBare(StationMissing(data), data))
      ELSE Built([json |-> data, id |-> asin,
                  cover_url |-> data.queue.queueMetadata.imageUrlMap.FULL,
                  name |-> data.queue.queueMetadata.title,
                  page_token |-> data.queue.pageToken])

\* A track of the queue service (mpqs) and one of the lookup service (muse),
\* with every key the normalizer reads.
MpqsTrack ==
    [name |-> "song", artistName |-> "artist",
     album |-> [name |-> "album", artistName |-> "album artist",
                image |-> "album image", asin |-> "B1"],
     artUrlMap |-> [FULL |-> "full", LARGE |-> "large"],
     identifierType |-> "COID", identifier |-> "id1",
     durationInSeconds |-> "240"]
MuseTrack ==
    [title |-> "song", artist |-> [name |-> "artist", asin |-> "B9"],
     album |-> [title |-> "album", albumArtistName |-> "album artist",
                image |-> "album image", asin |-> "B1"],
     asin |-> "B2", duration |-> "240"]

\* Track payloads: keys left out of the payload, or of its album object.
TrackPayloads ==
    UNION { Drops(t, MaxDropped)
            \cup { [t EXCEPT !.album = a] : a \in Drops(t.album, MaxDropped) } :
            t \in {MpqsTrack, MuseTrack} }
    \cup { [MuseTrack EXCEPT !.artist = [asin |-> "B9"]],
           [k \in DOMAIN MpqsTrack \cup {"asin"} |->
              IF k = "asin" THEN "B2" ELSE MpqsTrack[k]] }

\* Album payloads of both shapes.
AlbumPayloads ==
    Drops(SummaryData("B1"), 1)
    \cup { [SummaryData("B1") EXCEPT !.metadata = m] :
             m \in Drops(SummaryData("B1").metadata, MaxDropped) }
    \cup Drops(FullData("B1", "4.5", 1500), MaxDropped)
    \cup { [FullData("B1", "4.5", 1500) EXCEPT !.artist = [asin |-> "B9"]],
           [FullData("B1", "4.5", 1500) EXCEPT !.reviews = [count |-> "7"]],
           [FullData("B1", "4.5", 1500) EXCEPT
              !.productDetails = [binding |-> "CD"]],
           FullData("B2", "3.0", 86400000),
           SummaryData("B2") }

FullPlaylist ==
    [asin |-> "P1", image |-> "cover", title |-> "name",
     primaryGenre |-> "genre", reviews |-> [average |-> "4.5"],
     trackCount |-> 2, tracks |-> <<"track1", "track2">>]

PlaylistPayloads ==
    Drops(FullPlaylist, MaxDropped)
    \cup { [FullPlaylist EXCEPT !.reviews = [count |-> "7"]] }

FullQueue ==
    [pageToken |-> 1,
     queueMetadata |-> [title |-> "station",
                        imageUrlMap |-> [FULL |-> "full", LARGE |-> "large"]]]

\* createQueue answers handed to Station.__init__.
StationPayloads ==
    { [queue |-> q, trackMetadataList |-> <<>>] : q \in Drops(FullQueue, 1) }
    \cup { [queue |-> [FullQueue EXCEPT !.queueMetadata = m],
            trackMetadataList |-> <<>>] : m \in Drops(FullQueue.queueMetadata, 1) }
    \cup { [queue |-> [FullQueue EXCEPT !.queueMetadata.imageUrlMap =
                          [LARGE |-> "large"]],
            trackMetadataList |-> <<>>],
           [trackMetadataList |-> <<>>] }

EntityInputs ==
    { [kind |-> "track", data |-> d] : d \in TrackPayloads }
    \cup { [kind |-> "album", data |-> d] : d \in AlbumPayloads }
    \cup { [kind |-> "playlist", data |-> d] : d \in PlaylistPayloads }
    \cup { [kind |-> "station", data |-> d] : d \in StationPayloads }

NoInput == [kind |-> None, data |-> NoPayload]

EntIdle ==
    /\ entIn = NoInput
    /\ entPc = "raw"
    /\ entOut = Raised(NoError)
    /\ trkUrl = None
    /\ urlLog = <<>>

\* The constructor named by the kind runs on the payload.
Normalize(in) ==
    CASE in.kind = "track" -> TrackInit(in.data)
      [] in.kind = "album" -> AlbumNew(in.data)
      [] in.kind = "playlist" -> PlaylistInit(in.data)
      [] in.kind = "station" -> StationInit("station1", in.data)

\* Track(...), Album(...), Playlist(...) or Station(...) is evaluated on the
\* payload in hand.
EntConstruct ==
    /\ entPc = "raw"
    /\ entOut' = Normalize(entIn)
    /\ entPc' = IF entOut'.ok THEN "built" ELSE "failed"
    /\ UNCHANGED <<entIn, trkUrl, urlLog>>
    /\ UNCHANGED <<callVars, notEntVars>>

---------------------------------------------------------------------------
(* Track.url                                                               *)

GET_URL == "dmls/"
GET_URL_TARGET ==
    "com.amazon.digitalmusiclocator.DigitalMusicLocatorServiceExternal.getRestrictedStreamingURL"
MAX_CONCURRENCY_REACHED == "MAX_CONCURRENCY_REACHED"

\* The body of the stream-URL request.
StreamQuery(t) ==
    [customerId |-> amzn.customer_id,
     deviceToken |-> [deviceTypeId |-> amzn.device_type,
                      deviceId |-> amzn.device_id],
     appMetadata |-> [https |-> "true"],
     clientMetadata |-> [clientId |-> "WebCP"],
     contentId |-> [identifier |-> t.identifier,
                    identifierType |-> t.identifier_type,
                    bitRate |-> "HIGH",
                    contentDuration |-> t.duration]]

\* The answers the locator service can give.
StreamResponses ==
    { [contentResponse |-> [urlList |-> <<"https://stream/1.m3u">>]],
      [statusCode |-> "OK",
       contentResponse |-> [urlList |-> <<"https://stream/2.m3u">>]],
      [statusCode |-> MAX_CONCURRENCY_REACHED],
      [statusCode |-> MAX_CONCURRENCY_REACHED,
       contentResponse |-> [urlList |-> <<"https://stream/1.m3u">>]],
      [statusCode |-> "ERROR"],
      [message |-> "no content"],
      [contentResponse |-> [statusCode |-> "ERROR"]],
      [contentResponse |-> [urlList |-> <<>>]],
      [contentResponse |-> [urlList |-> <<None>>]] }

\* A cap that is never recognized.
IsConcurrencyCapNever(resp) == FALSE

\* `'statusCode' in stream_json and stream_json['statusCode'] ==
\* 'MAX_CONCURRENCY_REACHED'`
IsConcurrencyCap(resp) ==
    Has(resp, "statusCode") /\ resp.statusCode = MAX_CONCURRENCY_REACHED

\* What url() does with the decoded answer: raise Exception(statusCode) on
\* the cap, else read ['contentResponse']['urlList'][0] (a KeyError is
\* re-raised with the answer echoed; an empty list raises IndexError).
UrlOutcome(resp) ==
    IF IsConcurrencyCap(resp)
      THEN [ok |-> FALSE, url |-> None,
            error |-> [type |-> "Exception", field |-> resp.statusCode,
                       payload |-> NoPayload]]
    ELSE IF ~Has(resp, "contentResponse")
      THEN [ok |-> FALSE, url |-> None,
            error |-> KeyErrorEchoed("contentResponse", resp)]
    ELSE IF ~Has(resp.contentResponse, "urlList")
      THEN [ok |-> FALSE, url |-> None,
            error |-> KeyErrorEchoed("urlList", resp)]
    ELSE IF resp.contentResponse.urlList = <<>>
      THEN [ok |-> FALSE, url |-> None,
            error |-> [type |-> "IndexError", field |-> None,
                       payload |-> NoPayload]]
    ELSE [ok |-> TRUE, url |-> resp.contentResponse.urlList[1],
          error |-> NoError]

\* The exception call() lets through when it does not return.
CallError(outcome) ==
    [ok |-> FALSE, url |-> None,
     error |-> [type |-> IF outcome = "neterr" THEN "RequestException"
                         ELSE "ValueError",
                field |-> None, payload |-> NoPayload]]

NoAnswer == [none |-> TRUE]

\* A lookup that keeps nothing of the answer.
TrkUrlFetchForgetting ==
    /\ entPc = "built"
    /\ entIn.kind = "track"
    /\ trkUrl = None
    /\ Len(urlLog) < MaxUrlCalls
    /\ \E outcome \in CallOutcomes, setc \in BOOLEAN,
          resp \in StreamResponses :
        /\ DoCall(GET_URL, GET_URL_TARGET, StreamQuery(entOut.value), outcome,
                  setc, resp)
        /\ LET out == IF outcome = "ok" THEN UrlOutcome(resp)
                      ELSE CallError(outcome)
           IN  /\ urlLog' = Append(urlLog,
                                   [called |-> TRUE,
                                    answered |-> outcome = "ok",
                                    answer |-> IF outcome = "ok" THEN resp
                                               ELSE NoAnswer,
                                    out |-> out])
               /\ trkUrl' = None
    /\ UNCHANGED <<entIn, entPc, entOut>>
    /\ UNCHANGED notEntVars

\* track.url() with no URL memoized: the locator service is called and the
\* answer examined; a URL found is memoized.
TrkUrlFetch ==
    /\ entPc = "built"
    /\ entIn.kind = "track"
    /\ trkUrl = None
    /\ Len(urlLog) < MaxUrlCalls
    /\ \E outcome \in CallOutcomes, setc \in BOOLEAN,
          resp \in StreamResponses :
        /\ DoCall(GET_URL, GET_URL_TARGET, StreamQuery(entOut.value), outcome,
                  setc, resp)
        /\ LET out == IF outcome = "ok" THEN UrlOutcome(resp)
                      ELSE CallError(outcome)
           IN  /\ urlLog' = Append(urlLog,
                                   [called |-> TRUE,
                                    answered |-> outcome = "ok",
                                    answer |-> IF outcome = "ok" THEN resp
                                               ELSE NoAnswer,
                                    out |-> out])
               /\ trkUrl' = out.url
    /\ UNCHANGED <<entIn, entPc, entOut>>
    /\ UNCHANGED notEntVars

\* track.url() with a URL memoized: it is returned, with no call.
TrkUrlHeld ==
    /\ entPc = "built"
    /\ entIn.kind = "track"
    /\ trkUrl # None
    /\ Len(urlLog) < MaxUrlCalls
    /\ urlLog' = Append(urlLog,
                        [called |-> FALSE, answered |-> FALSE,
                         answer |-> NoAnswer,
                         out |-> [ok |-> TRUE, url |-> trkUrl,
                                  error |-> NoError]])
    /\ UNCHANGED <<entIn, entPc, entOut, trkUrl>>
    /\ UNCHANGED <<callVars, notEntVars>>

---------------------------------------------------------------------------
(* Specifications.                                                         *)

InitCall ==
    /\ amzn = ReadySession
    /\ jarDirty = FALSE
    /\ calls = <<>>
    /\ cookieFile = ReadySession.url
    /\ targetCookie = [value |-> ReadySession.url, inJar |-> TRUE]
    /\ SeDone

InitLibrary ==
    /\ InitCall
    /\ libPages \in LibChains
    /\ libPc = "none"
    /\ libData = NoData
    /\ libResults = <<>>
    /\ libQuery = Null
    /\ libYielded = <<>>
    /\ libStarts = <<>>
    /\ StIdle
    /\ AlbIdle
    /\ EntIdle

NextLibrary ==
    \/ LibInvoke
    \/ LibFirstFetch
    \/ LibPop
    \/ LibEnd
    \/ LibRefillFetch
    \/ LibRefillSkip

SpecLibrary == InitLibrary /\ [][NextLibrary]_vars

InitStation ==
    /\ InitCall
    /\ LibIdle
    /\ StIdle
    /\ AlbIdle
    /\ EntIdle

NextStation ==
    \/ StCreate
    \/ StInvoke
    \/ StStart
    \/ StYield
    \/ StEnd
    \/ StRefill
    \/ StContinue

SpecStation == InitStation /\ [][NextStation]_vars

\* A session on which the consumer either lists the library, any number of
\* times, or plays a station, iterating it any number of times.
InitPagination ==
    /\ InitCall
    /\ libPages \in LibChainsPrime
    /\ libPc = "none"
    /\ libData = NoData
    /\ libResults = <<>>
    /\ libQuery = Null
    /\ libYielded = <<>>
    /\ libStarts = <<>>
    /\ StIdle
    /\ AlbIdle
    /\ EntIdle

LibraryInUse == libPc # "none"
StationInUse == calls # <<>> /\ libPc = "none"

NextPagination ==
    \/ (~StationInUse /\ LibInvoke)
    \/ LibFirstFetch
    \/ LibPop
    \/ LibEnd
    \/ LibRefillFetch
    \/ LibRefillSkip
    \/ LibRelist
    \/ (~LibraryInUse /\ libPages = <<NoData>> /\ StCreate)
    \/ StInvoke
    \/ StStart
    \/ StYield
    \/ StEnd
    \/ StRefill
    \/ StContinue

SpecPagination == InitPagination /\ [][NextPagination]_vars

InitSession ==
    /\ amzn = NewObject
    /\ jarDirty = FALSE
    /\ calls = <<>>
    /\ cookieFile \in {NoCookie, AMAZON_MUSIC_URL, "https://music.amazon.cn"}
    /\ targetCookie = [value |-> NoCookie, inJar |-> FALSE]
    /\ seArgs \in [email : {"e1"}, password : {"p1", "p2"}]
    /\ seForms = {PlainForm}
    /\ sePc = "init"
    /\ seR = NoResponse
    /\ seReqs = <<>>
    /\ seResps = <<>>
    /\ seError = None
    /\ LibIdle
    /\ StIdle
    /\ AlbIdle
    /\ EntIdle

\* A construction against a service that may serve any of the sign-in forms.
InitSignIn ==
    /\ amzn = NewObject
    /\ jarDirty = FALSE
    /\ calls = <<>>
    /\ cookieFile = NoCookie
    /\ targetCookie = [value |-> NoCookie, inJar |-> FALSE]
    /\ seArgs = [email |-> "e1", password |-> "p1"]
    /\ seForms = Forms
    /\ sePc = "init"
    /\ seR = NoResponse
    /\ seReqs = <<>>
    /\ seResps = <<>>
    /\ seError = None
    /\ LibIdle
    /\ StIdle
    /\ AlbIdle
    /\ EntIdle

NextSession ==
    \/ SeHome
    \/ SeAuthenticate
    \/ SeNoConfig
    \/ SeNoRecognizedKey
    \/ SeForceSignIn
    \/ SeFinish

SpecSession == InitSession /\ [][NextSession]_vars

SpecSignIn == InitSignIn /\ [][NextSession]_vars

\* A construction with an empty cookie store.
InitSessionRun ==
    /\ amzn = NewObject
    /\ jarDirty = FALSE
    /\ calls = <<>>
    /\ cookieFile = NoCookie
    /\ targetCookie = [value |-> NoCookie, inJar |-> FALSE]
    /\ seArgs = [email |-> "e1", password |-> "p1"]
    /\ seForms = {PlainForm}
    /\ sePc = "init"
    /\ seR = NoResponse
    /\ seReqs = <<>>
    /\ seResps = <<>>
    /\ seError = None
    /\ LibIdle
    /\ StIdle
    /\ AlbIdle
    /\ EntIdle

\* The constructor with its loops as the source has them, without a bound
\* on the number of passes: past the bounds of the request log the
\* submissions and forced sign-ins go on unrecorded.  The constructor is
\* the only thread and each of its steps completes, so it keeps taking
\* steps while one is possible.
NextSessionRun ==
    \/ SeHome
    \/ SeAuthenticate
    \/ SeAuthenticateOn
    \/ SeNoConfig
    \/ SeNoRecognizedKey
    \/ SeForceSignIn
    \/ SeForceSignInOn
    \/ SeFinish

SpecSessionRun ==
    InitSessionRun /\ [][NextSessionRun]_vars /\ WF_vars(NextSessionRun)

\* The endpoint, target and body a caller can pass: those of the calls the
\* facade makes, and every other pairing of their endpoints, targets and
\* bodies.
CallInputs ==
    [endpoint : {"cirrus/", LOOKUP},
     target : {None, LOOKUP_TARGET, GET_NEXT_TRACKS_TARGET},
     query : {[nextResultsToken |-> Null], [asins |-> <<"B1">>]}]

\* call(endpoint, target, query) made by any caller.
Call ==
    /\ Len(calls) < MaxCalls
    /\ \E in \in CallInputs, outcome \in CallOutcomes, setc \in BOOLEAN :
        DoCall(in.endpoint, in.target, in.query, outcome, setc,
               [json |-> in.endpoint])
    /\ UNCHANGED <<libVars, stVars, seVars, albVars, entVars>>

InitCallSpec ==
    /\ \E v \in {1, 2} :
        /\ amzn = Populate(EraseCredentials(NewObject), Config(v, 1, NoKey))
        /\ cookieFile = amzn.url
        /\ targetCookie = [value |-> amzn.url, inJar |-> TRUE]
    /\ jarDirty = FALSE
    /\ calls = <<>>
    /\ SeDone
    /\ LibIdle
    /\ StIdle
    /\ AlbIdle
    /\ EntIdle

NextCall == Call

SpecCall == InitCallSpec /\ [][NextCall]_vars

\* An album built from an item of the library listing, or by
\* AmazonMusic.album from a record of the lookup service.
InitAlbum ==
    /\ InitCall
    /\ LibIdle
    /\ StIdle
    /\ alb \in { AlbumInit(SummaryData(asin)) : asin \in {"B1", "B2"} }
               \cup { AlbumInit(FullData(asin, "4.5", ms)) :
                        asin \in {"B1", "B2"}, ms \in {1500, 86400000} }
               \cup { AlbumInit(FullDataNoTracks("B1", "4.5", 1500)) }
    /\ albAccesses = 0
    /\ albResult = TracksError
    /\ EntIdle

NextAlbum ==
    \/ AlbTracksHeld
    \/ AlbTracksLookup

SpecAlbum == InitAlbum /\ [][NextAlbum]_vars

\* A payload arrives from the service and is handed to the constructor of
\* its kind; a Track built from it is asked for its stream URL.
InitEntity ==
    /\ InitCall
    /\ LibIdle
    /\ StIdle
    /\ AlbIdle
    /\ entIn \in EntityInputs
    /\ entPc = "raw"
    /\ entOut = Raised(NoError)
    /\ trkUrl = None
    /\ urlLog = <<>>

NextEntity ==
    \/ EntConstruct
    \/ TrkUrlFetch
    \/ TrkUrlHeld

SpecEntity == InitEntity /\ [][NextEntity]_vars

---------------------------------------------------------------------------
(* Claims about the library listing.                                       *)

RECURSIVE UpstreamItems(_)
\* The items of pages 1..n of the upstream chain, in upstream order.
UpstreamItems(n) ==
    IF n = 0 THEN <<>>
    ELSE UpstreamItems(n - 1) \o libPages[n].searchReturnItemList

RECURSIVE PassingIds(_)
\* The ids of the items of a list that pass the filter, order kept.
PassingIds(items) ==
    IF items = <<>> THEN <<>>
    ELSE (IF PassesFilter(Head(items)) THEN <<Head(items).id>> ELSE <<>>)
         \o PassingIds(Tail(items))

AllPagesNonEmpty ==
    \A i \in 1..Len(libPages) : libPages[i].searchReturnItemList # <<>>

\* The nextResultsToken sent by the i-th call.
TokenSent(i) == calls[i].req.data.val.nextResultsToken

\* At the end of a listing over a chain of non-empty pages: the yielded
\* albums are the passing items in upstream order, each once, and there was
\* one 'cirrus/' call per page, the i-th carrying the token of page i-1.
C1_AtExhaustion ==
    (libPc = "done" /\ AllPagesNonEmpty) =>
        /\ libYielded = PassingIds(UpstreamItems(Len(libPages)))
        /\ Len(calls) = Len(libPages)
        /\ \A i \in 1..Len(calls) :
              /\ calls[i].endpoint = "cirrus/"
              /\ TokenSent(i) = IF i = 1 THEN Null
                                ELSE libPages[i - 1].nextResultsToken

\* A step that issues a call issues exactly one, and a further call (any but
\* the first) finds every item fetched so far consumed.
C1_CallStep ==
    (calls' # calls) =>
        /\ Len(calls') = Len(calls) + 1
        /\ (calls # <<>>) =>
              /\ libResults = <<>>
              /\ libPc \in {"yielded", "refill"}

\* C1: over a chain of non-empty pages whose tokens link them, consuming
\* albums_in_library() to exhaustion yields the albums passing the filter in
\* upstream order, each exactly once, with exactly one 'cirrus/' call per
\* page, each further call issued only after every item of the previous
\* page was consumed.
C1_LibraryInOrderExactlyOnce ==
    [](C1_AtExhaustion) /\ [][C1_CallStep]_vars

\* A two-page listing with a page of two items, consumed to the end, with at
\* least two albums yielded.
C1_Witness ==
    /\ libPc = "done"
    /\ AllPagesNonEmpty
    /\ Len(libPages) >= 2
    /\ Len(libPages[1].searchReturnItemList) >= 2
    /\ Len(libYielded) >= 2
    /\ Len(calls) = Len(libPages)

\* C2: the listing follows the shared fetcher contract for every page
\* sequence, empty pages included: it ends only when the most recently
\* fetched page carried no continuation token.
C2_EndsOnlyWithoutToken ==
    libPc = "done" => libData.nextResultsToken = Null

---------------------------------------------------------------------------
(* Claims about the station queue.                                         *)

\* C3: the station queue follows the shared fetcher contract: getNextTracks
\* is issued only with a non-null page token (iteration stops once the
\* station's page token is null).
C3_NoCallWithNullToken ==
    \A i \in 1..Len(calls) :
        calls[i].endpoint = GET_NEXT_TRACKS =>
            calls[i].req.data.val.pageToken # Null

\* Calls issued since the running generator was made.
IterCalls == Len(calls) - stCallsBefore

RECURSIVE ReturnedFrom(_)
\* The tracks returned by the successful calls i..Len(calls), in order.
ReturnedFrom(i) ==
    IF i > Len(calls) THEN <<>>
    ELSE (IF calls[i].outcome = "ok" THEN calls[i].resp.trackMetadataList
          ELSE <<>>) \o ReturnedFrom(i + 1)

\* While a generator runs on a station with an initial batch of n >= 1
\* tracks: its first n yields are that batch in order and come without a
\* call; when track n+1 has been yielded exactly one call was made; and all
\* that was yielded or is buffered is the initial batch followed by the
\* returned tracks in the order returned.
C4_Order ==
    (stIter >= 1 /\ Len(stJson) >= 1) =>
        /\ \A i \in 1..Len(stYielded) :
              i <= Len(stJson) => stYielded[i] = stJson[i]
        /\ (\/ Len(stYielded) < Len(stJson)
            \/ (Len(stYielded) = Len(stJson) /\ stPc = "yielded"))
              => IterCalls = 0
        /\ (Len(stYielded) = Len(stJson) + 1 /\ stPc = "yielded")
              => IterCalls = 1
        /\ stPc # "created" =>
              stYielded \o stTracks = stJson \o ReturnedFrom(stCallsBefore + 1)

\* The step that requests track n+1 (the generator resumes after yielding
\* the n-th track, the page token being non-null) issues exactly one
\* getNextTracks call, for 10 tracks, with the station's current page token.
C4_RequestStep ==
    (/\ stPc = "yielded"
     /\ Len(stJson) >= 1
     /\ Len(stYielded) = Len(stJson)
     /\ stPageToken # Null
     /\ stIter' = stIter
     /\ stPc' # stPc) =>
        /\ Len(calls') = Len(calls) + 1
        /\ calls'[Len(calls')].endpoint = GET_NEXT_TRACKS
        /\ calls'[Len(calls')].req.data.val.numberOfTracks = 10
        /\ calls'[Len(calls')].req.data.val.pageToken = stPageToken

\* C4: for a station with an initial batch of n >= 1 tracks and a non-null
\* page token, the first n tracks yielded are the initial batch in order and
\* cause no getNextTracks call; requesting track n+1 triggers exactly one
\* getNextTracks call with numberOfTracks = 10 and the current page token,
\* and the returned tracks follow the initial n in the order returned.
C4_StationPagination ==
    [](C4_Order) /\ [][C4_RequestStep]_vars

\* Track n+1 has been yielded from a station with an initial batch of two
\* tracks, after one call that carried a non-null token and returned two.
C4_Witness ==
    /\ stPc = "yielded"
    /\ Len(stJson) = 2
    /\ Len(stYielded) = 3
    /\ IterCalls = 1
    /\ calls[Len(calls)].req.data.val.pageToken # Null
    /\ Len(stTracks) = 1

---------------------------------------------------------------------------
(* Claims about session construction.                                      *)

AuthCount == Len(ReqsOfKind("auth"))
ForceCount == Len(ReqsOfKind("force"))

\* A complete blob of a recognized customer.
GoodPage(p) ==
    p.kind = "config" /\ p.missing = NoKey /\ p.isRecognizedCustomer # 0

\* The service answered the home request and the first k-1 submissions with
\* a bounce through the sign-in path, and the k-th submission (the home
\* request when k = 0) with an unbounced page holding a good blob.
C5_Script(k) ==
    /\ Len(seResps) = k + 1
    /\ \A i \in 1..k : seResps[i].signin
    /\ ~seResps[k + 1].signin
    /\ GoodPage(seResps[k + 1].page)

\* Under such a script exactly k submissions and no forced sign-in were
\* sent, and the constructor is parsing the last response or is Ready.
C5_Counts ==
    \A k \in 0..MaxAuth :
        C5_Script(k) =>
            /\ sePc \in {"loop", "ready"}
            /\ AuthCount = k
            /\ ForceCount = 0
            /\ Len(seReqs) = k + 1
            /\ (sePc = "loop" => seR = seResps[k + 1])

\* Under such a script the next step of the constructor is the one to
\* Ready, with no further request.
C5_ToReady ==
    \A k \in 0..MaxAuth :
        (C5_Script(k) /\ sePc = "loop") =>
            (sePc' = "ready" /\ seReqs' = seReqs)

\* C5: when the home request and the first k-1 submissions are bounced
\* through the sign-in path and the k-th is answered with an unbounced page
\* holding the blob of a recognized customer, the session reaches Ready
\* after exactly k submissions and no forced sign-in.
C5_AuthenticationLoop ==
    [](C5_Counts) /\ [][C5_ToReady]_vars

\* Ready after two bounces and two submissions.
C5_Witness ==
    /\ sePc = "ready"
    /\ C5_Script(2)
    /\ AuthCount = 2

\* C6: when no sign-in bounce remains and the page holds no blob line, the
\* constructor fails with the authentication error at once: no further
\* request, and a failed construction stays failed (never Ready, no session
\* returned).
C6_NoConfigFails ==
    [][/\ (sePc = "loop" /\ ~IsBounced(seR) /\ seR.page.kind = "noline") =>
            /\ sePc' = "failed"
            /\ seError' = "appConfig could not be found"
            /\ seReqs' = seReqs
       /\ sePc = "failed" => (sePc' = "failed" /\ seReqs' = seReqs)]_vars

\* The authentication error raised after a submission.
C6_Witness ==
    /\ sePc = "failed"
    /\ seError = "appConfig could not be found"
    /\ AuthCount >= 1
    /\ ~seResps[Len(seResps)].signin
    /\ seResps[Len(seResps)].page.kind = "noline"

\* The i-th response held a blob reporting an unrecognized customer, and
\* the constructor has acted on it.
ParsedUnrecognized(i) ==
    /\ ~seResps[i].signin
    /\ seResps[i].page.kind = "config"
    /\ seResps[i].page.missing # "isRecognizedCustomer"
    /\ seResps[i].page.isRecognizedCustomer = 0
    /\ (i < Len(seResps) \/ sePc # "loop")

\* The forced-sign-in requests are as many as the blobs parsed that reported
\* an unrecognized customer; Ready holds the fields of a blob whose
\* isRecognizedCustomer is non-zero.
C7_Counts ==
    /\ ForceCount = Cardinality({i \in 1..Len(seResps) : ParsedUnrecognized(i)})
    /\ sePc = "ready" =>
          /\ seResps[Len(seResps)].page.kind = "config"
          /\ seResps[Len(seResps)].page.isRecognizedCustomer # 0
          /\ amzn = Populate(EraseCredentials(amzn), seResps[Len(seResps)].page)

\* Acting on a blob that reports an unrecognized customer is sending one
\* forced-sign-in request and going back to the loop with its response (or
\* failing with the transport's error).
C7_ForceStep ==
    (/\ sePc = "loop"
     /\ ~IsBounced(seR)
     /\ seR.page.kind = "config"
     /\ seR.page.missing # "isRecognizedCustomer"
     /\ seR.page.isRecognizedCustomer = 0) =>
        /\ Len(seReqs') = Len(seReqs) + 1
        /\ seReqs'[Len(seReqs')].kind = "force"
        /\ \/ /\ sePc' = "loop"
              /\ Len(seResps') = Len(seResps) + 1
              /\ seR' = seResps'[Len(seResps')]
           \/ /\ sePc' = "failed"
              /\ seError' = "transport"

\* C7: whenever a parsed blob reports isRecognizedCustomer == 0 exactly one
\* forced-sign-in request is issued and the sign-in loop and parse run again
\* on its response; Ready is reached only with a blob whose
\* isRecognizedCustomer is non-zero, and the forced-sign-in requests are as
\* many as the parsed blobs that reported an unrecognized customer.
C7_ForceSignIn ==
    [](C7_Counts) /\ [][C7_ForceStep]_vars

\* Ready after two blobs of an unrecognized customer and two forced
\* sign-ins.
C7_Witness ==
    /\ sePc = "ready"
    /\ ForceCount = 2
    /\ Cardinality({i \in 1..Len(seResps) : ParsedUnrecognized(i)}) = 2

\* The constructor has acted on a blob of a recognized customer.
RecognizedParsed ==
    /\ sePc \in {"ready", "failed"}
    /\ seResps # <<>>
    /\ ~seResps[Len(seResps)].signin
    /\ seResps[Len(seResps)].page.kind = "config"
    /\ seResps[Len(seResps)].page.missing # "isRecognizedCustomer"
    /\ seResps[Len(seResps)].page.isRecognizedCustomer # 0

\* C8: whenever the session has been returned (Ready) its stored email and
\* password are erased and no field holds the supplied credentials; the
\* object holds the credentials exactly from the start of construction until
\* a blob of a recognized customer has been parsed.
C8_CredentialErasure ==
    /\ sePc = "ready" =>
          /\ amzn.email = None
          /\ amzn.password = None
          /\ \A f \in DOMAIN amzn :
                amzn[f] # seArgs.password /\ amzn[f] # seArgs.email
    /\ sePc # "init" =>
          IF RecognizedParsed
            THEN amzn.email = None /\ amzn.password = None
            ELSE amzn.email = seArgs.email /\ amzn.password = seArgs.password

\* Ready after the credentials were submitted.
C8_Witness ==
    /\ sePc = "ready"
    /\ AuthCount >= 1
    /\ seReqs[2].password = seArgs.password
    /\ amzn.password = None

---------------------------------------------------------------------------
(* Claims about the Call Invoker.                                          *)

\* C9: every invocation of call() persists the cookie store afterward,
\* whether it succeeds or fails (transport error and undecodable response
\* included).
C9_EveryCallSaves ==
    \A i \in 1..Len(calls) : calls[i].saved

---------------------------------------------------------------------------
(* Claims about the album upgrade.                                         *)

\* The call returned an album list whose first record holds its tracks.
GoodLookup(c) ==
    /\ c.endpoint = LOOKUP
    /\ c.outcome = "ok"
    /\ c.resp.albumList # <<>>
    /\ "tracks" \in DOMAIN c.resp.albumList[1]

\* An access on an object without tracks issues exactly one lookup, by the
\* object's id, and when the lookup returns the full record the object holds
\* it afterwards, rating and release date included, and the access returns
\* its tracks; an access on an object with tracks issues no call and leaves
\* the object as it is; an object with tracks keeps them.
C10_AccessStep ==
    /\ (albAccesses' # albAccesses /\ "tracks" \notin DOMAIN alb.json) =>
          /\ Len(calls') = Len(calls) + 1
          /\ calls'[Len(calls')].endpoint = LOOKUP
          /\ calls'[Len(calls')].req.data.val.asins = <<alb.id>>
          /\ GoodLookup(calls'[Len(calls')]) =>
                LET rec == calls'[Len(calls')].resp.albumList[1] IN
                /\ alb'.json = rec
                /\ alb'.id = rec.asin
                /\ alb'.rating = rec.reviews.average
                /\ alb'.rating # None
                /\ alb'.release_date = DivideBy1000(rec.originalReleaseDate)
                /\ alb'.release_date # NoDate
                /\ albResult' = [ok |-> TRUE, tracks |-> rec.tracks]
    /\ (albAccesses' # albAccesses /\ "tracks" \in DOMAIN alb.json) =>
          /\ calls' = calls
          /\ alb' = alb
          /\ albResult' = [ok |-> TRUE, tracks |-> alb.json.tracks]
    /\ "tracks" \in DOMAIN alb.json => "tracks" \in DOMAIN alb'.json

\* At most one lookup ever returned the full record, and it was the last
\* call; an object that holds tracks without any such lookup was built from
\* a full record, and no call was made for it.
C10_Lookups ==
    /\ \A i \in 1..Len(calls) : GoodLookup(calls[i]) => i = Len(calls)
    /\ (\E i \in 1..Len(calls) : GoodLookup(calls[i])) =>
          "tracks" \in DOMAIN alb.json
    /\ ("tracks" \in DOMAIN alb.json
        /\ \A i \in 1..Len(calls) : ~GoodLookup(calls[i])) => calls = <<>>

\* C10: for an Album built from the summary shape the first tracks() access
\* triggers exactly one full-album lookup by the album's id and, the lookup
\* returning the full record, replaces the object's state in place (rating
\* and release_date populated); every later access triggers no further
\* lookup.  An Album built from a full record with tracks never triggers a
\* lookup.
C10_AlbumUpgrade ==
    [](C10_Lookups) /\ [][C10_AccessStep]_vars

\* A summary album accessed three times: one lookup, on the first access,
\* and the object holds the full record.
C10_Witness ==
    /\ alb.id = "B2"
    /\ albAccesses = 3
    /\ Len(calls) = 1
    /\ GoodLookup(calls[1])
    /\ alb.rating = "3.0"
    /\ alb.release_date = [whole |-> 1, thousandths |-> 500]
    /\ albResult.ok

---------------------------------------------------------------------------
(* Claims about the entity normalizers and the stream URL.                 *)

\* C11: for every entity kind, a payload lacking a required field makes the
\* normalizer fail with an error that names the missing field and carries
\* the offending payload, and no required field (the track's album name
\* included) is silently defaulted to None.
C11_MissingFieldNamedAndEchoed ==
    entPc # "raw" =>
        /\ ~entOut.ok =>
              /\ entOut.error.field # None
              /\ entOut.error.payload = entIn.data
        /\ (entOut.ok /\ entIn.kind = "track") => entOut.value.album # None

\* The track payloads that lack `album` and nothing else.
TracksWithoutAlbum ==
    { Restrict(t, (DOMAIN t) \ {"album"}) : t \in {MpqsTrack, MuseTrack} }

\* C12: normalizing a track payload that has no `album` key, all other
\* fields present, fails with an error that names the field "album" and
\* echoes the payload, and no Track is produced.
C12_TrackWithoutAlbumFails ==
    (entPc # "raw" /\ entIn.kind = "track" /\ entIn.data \in TracksWithoutAlbum)
        => /\ entPc = "failed"
           /\ ~entOut.ok
           /\ entOut.value = NoEntity
           /\ entOut.error.field = "album"
           /\ entOut.error.payload = entIn.data
           /\ urlLog = <<>>

\* The constructor has run on a lookup-service track without `album`.
C12_Witness ==
    /\ entPc = "failed"
    /\ entIn.kind = "track"
    /\ entIn.data = Restrict(MuseTrack, (DOMAIN MuseTrack) \ {"album"})
    /\ entOut.error.field = "album"

\* The answer reports the concurrent-stream cap.
ReportsCap(a) == Has(a, "statusCode") /\ a.statusCode = "MAX_CONCURRENCY_REACHED"

\* The answer has no stream URL to read: a URL field is absent.
LacksUrlFields(a) ==
    ~Has(a, "contentResponse") \/ ~Has(a.contentResponse, "urlList")

\* C15: a url() lookup whose answer reports MAX_CONCURRENCY_REACHED fails
\* with an error that differs, in type and in content, from the failure of
\* every lookup whose answer merely lacks the URL fields.
C15_CapErrorIsDistinct ==
    \A i \in 1..Len(urlLog) :
        (urlLog[i].answered /\ ReportsCap(urlLog[i].answer)) =>
            /\ ~urlLog[i].out.ok
            /\ urlLog[i].out.error.type = "Exception"
            /\ urlLog[i].out.error.field = "MAX_CONCURRENCY_REACHED"
            /\ \A j \in 1..Len(urlLog) :
                  (/\ urlLog[j].answered
                   /\ ~ReportsCap(urlLog[j].answer)
                   /\ LacksUrlFields(urlLog[j].answer)) =>
                      /\ ~urlLog[j].out.ok
                      /\ urlLog[j].out.error.type = "KeyError"
                      /\ urlLog[j].out.error.type # urlLog[i].out.error.type
                      /\ urlLog[j].out.error # urlLog[i].out.error

\* A lookup that hit the cap followed by one whose answer lacks the URL
\* fields, on one track.
C15_Witness ==
    /\ Len(urlLog) = 2
    /\ urlLog[1].answered
    /\ urlLog[1].answer = [statusCode |-> "MAX_CONCURRENCY_REACHED"]
    /\ urlLog[1].out.error.type = "Exception"
    /\ urlLog[2].answered
    /\ urlLog[2].answer = [statusCode |-> "ERROR"]
    /\ urlLog[2].out.error.type = "KeyError"

---------------------------------------------------------------------------
(* Claims about failures, the filter and the cursor of the fetchers.       *)

\* Length of `calls` when the running library listing was made.
ListingStart == libStarts[Len(libStarts)]

RECURSIVE FetchedFrom(_)
\* The items returned by the successful calls i..Len(calls), in order.
FetchedFrom(i) ==
    IF i > Len(calls) THEN <<>>
    ELSE (IF calls[i].outcome = "ok" THEN calls[i].resp.searchReturnItemList
          ELSE <<>>) \o FetchedFrom(i + 1)

\* A failed 'cirrus/' call of the running listing is its last call, the
\* generator has raised at it, and it had yielded the passing albums of the
\* pages fetched before, in upstream order, each once.
C13_Library ==
    /\ libStarts # <<>> =>
          \A i \in (ListingStart + 1)..Len(calls) :
              calls[i].outcome # "ok" =>
                  /\ i = Len(calls)
                  /\ libPc = "failed"
                  /\ libYielded = PassingIds(FetchedFrom(ListingStart + 1))
                  /\ \A a, b \in 1..Len(libYielded) :
                        a < b => libYielded[a] < libYielded[b]
    /\ libPc = "failed" =>
          /\ Len(calls) > ListingStart
          /\ calls[Len(calls)].outcome # "ok"

\* A failed getNextTracks call of the running generator is its last call,
\* the generator has raised at it, and it had yielded the initial batch and
\* the tracks returned before, in order, each once.
C13_Station ==
    /\ stIter >= 1 =>
          \A i \in (stCallsBefore + 1)..Len(calls) :
              calls[i].outcome # "ok" =>
                  /\ i = Len(calls)
                  /\ stPc = "failed"
                  /\ stYielded = stJson \o ReturnedFrom(stCallsBefore + 1)
                  /\ \A a, b \in 1..Len(stYielded) :
                        a # b => stYielded[a] # stYielded[b]
    /\ stPc = "failed" =>
          /\ Len(calls) > stCallsBefore
          /\ calls[Len(calls)].outcome # "ok"

\* C13: when a page fetch of the library listing or of the station queue
\* fails, the error reaches the consumer at that point, the failed page is
\* not skipped, the iterator yields no item of a later page, and what it
\* yielded before the failure was yielded in order exactly once.
C13_PaginationErrorsAbort == C13_Library /\ C13_Station

\* A listing that raised at the fetch of its second page, after yielding the
\* two albums of the first.
C13_Witness ==
    /\ libPc = "failed"
    /\ Len(libStarts) = 1
    /\ Len(calls) = 2
    /\ calls[1].outcome = "ok"
    /\ calls[2].outcome = "neterr"
    /\ Len(libYielded) = 2

\* The upstream item with the given id (ids are upstream positions).
UpstreamItem(id) == UpstreamItems(Len(libPages))[id]

PageTokenSent(i) == calls[i].req.data.val.pageToken

\* The cursor the i-th call of a station left behind: the token of its
\* answer.
TokenReturned(i) ==
    IF calls[i].endpoint = CREATE_QUEUE
      THEN calls[i].resp.queue.pageToken
      ELSE calls[i].resp.nextPageToken

\* The latest answered call before the i-th.
LastAnswered(i) ==
    CHOOSE j \in 1..(i - 1) :
        /\ calls[j].outcome = "ok"
        /\ \A m \in (j + 1)..(i - 1) : calls[m].outcome # "ok"

\* Every getNextTracks call of a station, whichever generator issued it,
\* sends the token of the latest answer before it (the creating call's for
\* the first); with every call in between answered by a token never sent
\* before, two calls send different tokens.
C19_Station ==
    \A i \in 1..Len(calls) :
        calls[i].endpoint = GET_NEXT_TRACKS =>
            /\ PageTokenSent(i) = TokenReturned(LastAnswered(i))
            /\ \A j \in (i + 1)..Len(calls) :
                  (\A m \in i..(j - 1) :
                      /\ calls[m].outcome = "ok"
                      /\ \A n \in 2..m : TokenReturned(m) # PageTokenSent(n))
                  => PageTokenSent(j) # PageTokenSent(i)

\* The first 'cirrus/' call of every listing sends a null token; every
\* further call of a listing sends the nextResultsToken of the page the call
\* before it returned.
C19_Library ==
    \A i \in 1..Len(calls) :
        calls[i].endpoint = "cirrus/" =>
            IF \E k \in 1..Len(libStarts) : libStarts[k] = i - 1
              THEN TokenSent(i) = Null
              ELSE /\ calls[i - 1].outcome = "ok"
                   /\ TokenSent(i) = calls[i - 1].resp.nextResultsToken

\* C19: across all generators of one Station the page tokens sent by the
\* successive getNextTracks calls form the chain T0, T1, ... (T0 the
\* creating call's pageToken, T(i+1) the nextPageToken of the i-th answer),
\* re-iteration not rewinding it, so that no token is sent twice; within a
\* library listing each further call sends the nextResultsToken of the page
\* before, and a new listing starts again with a null token.
C19_CursorConsumedIrreversibly == C19_Station /\ C19_Library

\* A station iterated twice: the second generator's call sends the token
\* the first generator's call was answered with.
C19_Witness ==
    /\ stIter = 2
    /\ Len(calls) = 3
    /\ stCallsBefore = 2
    /\ calls[2].outcome = "ok"
    /\ TokenReturned(2) # Null
    /\ PageTokenSent(3) = TokenReturned(2)
    /\ PageTokenSent(3) # PageTokenSent(2)

---------------------------------------------------------------------------
(* Claims about the cookie store and the session fields.                   *)

\* C16: the cookie store is persisted after every state-changing network
\* step of the construction (home request, each submission, each forced
\* sign-in, Ready): whenever the latest request has completed, and so
\* whenever a construction has ended after a completed request, no cookie
\* received is left unsaved.
C16_PersistedAfterEveryStep ==
    (seReqs # <<>> /\ Len(seResps) = Len(seReqs)) => ~jarDirty

\* The first request goes to the persisted region cookie's value, or to the
\* default entry point when the store holds none.
C17_FirstRequest ==
    (seReqs = <<>> /\ seReqs' # <<>>) =>
        /\ Len(seReqs') = 1
        /\ seReqs'[1].kind = "home"
        /\ seReqs'[1].url = IF cookieFile # NoCookie THEN cookieFile
                            ELSE "https://music.amazon.com"

\* In Ready the persisted store holds the region cookie with the session's
\* base URL, which is where a construction loading that store starts.
C17_Ready ==
    sePc = "ready" =>
        /\ cookieFile # NoCookie
        /\ cookieFile = amzn.url
        /\ LoadedTarget.value = amzn.url

\* Only the step to Ready changes the persisted region cookie.
C17_OnlyReadyWrites ==
    sePc' # "ready" => cookieFile' = cookieFile

\* C17: the first request of the construction targets the persisted region
\* cookie's value when there is one and the default entry point otherwise;
\* in Ready the persisted store holds the region cookie with the session's
\* base URL, so a later construction from it starts there; a failed
\* construction leaves the persisted value as it was.
C17_RegionCookie ==
    [](C17_Ready) /\ [][C17_FirstRequest /\ C17_OnlyReadyWrites]_vars

\* Ready at a base URL other than the persisted one the construction
\* started at.
C17_Witness ==
    /\ sePc = "ready"
    /\ seReqs[1].url = "https://music.amazon.cn"
    /\ amzn.url = "https://music.amazon.com"
    /\ cookieFile = "https://music.amazon.com"

SessionFields ==
    {"device_id", "csrf_token", "csrf_ts", "csrf_rnd", "customer_id",
     "device_type", "territory", "locale", "region", "url"}

\* The i-th response held a blob of a recognized customer that lacks a key,
\* and the constructor has acted on it.
ParsedIncomplete(i) ==
    /\ ~seResps[i].signin
    /\ seResps[i].page.kind = "config"
    /\ seResps[i].page.missing # NoKey
    /\ (seResps[i].page.missing = "isRecognizedCustomer"
        \/ seResps[i].page.isRecognizedCustomer # 0)
    /\ (i < Len(seResps) \/ sePc # "loop")

\* C18: whenever the session has been returned (Ready) every session field
\* is populated, all from the one blob parsed last, which lacks no key; a
\* blob of a recognized customer that lacks a required key makes the
\* construction fail, so that no session is returned.
C18_AllOrNothing ==
    /\ sePc = "ready" =>
          LET c == seResps[Len(seResps)].page IN
          /\ ~seResps[Len(seResps)].signin
          /\ c.kind = "config"
          /\ c.missing = NoKey
          /\ \A f \in SessionFields :
                amzn[f] # Unset /\ amzn[f] = FieldValue(f, c)
    /\ \A i \in 1..Len(seResps) :
          ParsedIncomplete(i) =>
              /\ i = Len(seResps)
              /\ sePc = "failed"
              /\ seError = "KeyError"

\* Ready on the second account's blob, received after a forced sign-in that
\* followed the first account's blob.
C18_Witness ==
    /\ sePc = "ready"
    /\ Len(seResps) >= 2
    /\ seResps[1].page = Config(1, 0, NoKey)
    /\ seResps[Len(seResps)].page = Config(2, 1, NoKey)
    /\ amzn.customer_id = "cust2"
    /\ amzn.region = "CN"

---------------------------------------------------------------------------
(* Claims about the request the Call Invoker builds.                       *)

\* C20: call(endpoint, target, body) picks the encoding from target alone:
\* with a null target the body goes as a flat form and neither X-Amz-Target
\* nor Content-Encoding is attached; otherwise the body goes JSON-encoded
\* with both attached, X-Amz-Target being the target.  Either way the
\* request is a POST to {base_url}/{region}/api/{endpoint} carrying the
\* session's CSRF token, timestamp and random values and the fixed
\* client headers.
C20_EncodingFromTarget ==
    \A i \in 1..Len(calls) :
        LET c == calls[i] IN
        /\ c.req.method = "POST"
        /\ c.req.url = <<amzn.url, amzn.region, "api", c.endpoint>>
        /\ c.req.csrfToken = amzn.csrf_token
        /\ c.req.csrfTs = amzn.csrf_ts
        /\ c.req.csrfRnd = amzn.csrf_rnd
        /\ c.req.xRequestedWith = "XMLHttpRequest"
        /\ c.req.userAgent = USER_AGENT
        /\ c.req.data.val = c.query
        /\ IF c.target = None
             THEN /\ c.req.data.enc = "form"
                  /\ c.req.amzTarget = NoHeader
                  /\ c.req.contentEncoding = NoHeader
             ELSE /\ c.req.data.enc = "json"
                  /\ c.req.amzTarget = c.target
                  /\ c.req.contentEncoding = "amz-1.0"

\* On the second account's session: the lookup endpoint called with a null
\* target, then the library endpoint called with a target.
C20_Witness ==
    /\ Len(calls) = 2
    /\ amzn.region = "CN"
    /\ calls[1].endpoint = LOOKUP
    /\ calls[1].target = None
    /\ calls[1].req.data.enc = "form"
    /\ calls[2].endpoint = "cirrus/"
    /\ calls[2].target = LOOKUP_TARGET
    /\ calls[2].req.data.enc = "json"
    /\ calls[2].req.url = <<"https://music.amazon.cn", "CN", "api", "cirrus/">>

---------------------------------------------------------------------------
(* Claims about the two album shapes, track identifiers and the URL memo.  *)

\* A summary payload s and a full payload f carry the same values in the
\* fields both shapes have.
SameAlbumValues(s, f) ==
    /\ Has(f.productDetails, "primaryGenreName")
    /\ s.metadata.albumAsin = f.asin
    /\ s.metadata.albumName = f.title
    /\ s.metadata.albumArtistName = f.artist.name
    /\ s.metadata.primaryGenre = f.productDetails.primaryGenreName

\* Two albums agree on id, name, artist and genre.
SameCanonical(a, b) ==
    /\ a.id = b.id
    /\ a.name = b.name
    /\ a.artist = b.artist
    /\ a.genre = b.genre

\* C21: an album built from the summary shape has rating None, release date
\* None and the outer object's numTracks as track count; one built from the
\* full shape has reviews.average as rating and the millisecond timestamp
\* divided by 1000 (exactly) as release date; and an album built from either
\* shape agrees on id, name, artist and genre with the album built from any
\* payload of the other shape that carries the same values.
C21_AlbumShapesAgree ==
    (entPc = "built" /\ entIn.kind = "album") =>
        LET d == entIn.data
            a == entOut.value
        IN  IF Has(d, "metadata")
              THEN /\ a.rating = None
                   /\ a.release_date = NoDate
                   /\ a.track_count = d.numTracks
                   /\ \A f \in AlbumPayloads :
                         (/\ ~Has(f, "metadata")
                          /\ AlbumNew(f).ok
                          /\ SameAlbumValues(d, f)) =>
                             SameCanonical(a, AlbumNew(f).value)
              ELSE /\ a.rating = d.reviews.average
                   /\ a.release_date # NoDate
                   /\ a.release_date.thousandths \in 0..999
                   /\ a.release_date.whole * 1000
                        + a.release_date.thousandths = d.originalReleaseDate
                   /\ \A s \in AlbumPayloads :
                         (/\ Has(s, "metadata")
                          /\ AlbumNew(s).ok
                          /\ SameAlbumValues(s, d)) =>
                             SameCanonical(a, AlbumNew(s).value)

\* An album built from a full record released at 1.5 s, for which a summary
\* payload with the same values exists and builds.
C21_Witness ==
    /\ entPc = "built"
    /\ entIn = [kind |-> "album", data |-> FullData("B1", "4.5", 1500)]
    /\ entOut.value.release_date = [whole |-> 1, thousandths |-> 500]
    /\ entOut.value.rating = "4.5"
    /\ \E s \in AlbumPayloads :
          /\ Has(s, "metadata")
          /\ AlbumNew(s).ok
          /\ SameAlbumValues(s, entIn.data)
          /\ AlbumNew(s).value.rating = None

\* C22: a Track built from a payload with identifierType has that type and
\* the payload's identifier; one built from a payload without identifierType
\* has identifier_type "ASIN" and the payload's asin; and a payload with
\* neither identifierType nor asin builds no Track.
C22_IdentifierResolution ==
    (entIn.kind = "track" /\ entPc # "raw") =>
        LET d == entIn.data
        IN  /\ (entPc = "built" /\ Has(d, "identifierType")) =>
                  /\ entOut.value.identifier_type = d.identifierType
                  /\ entOut.value.identifier = d.identifier
            /\ (entPc = "built" /\ ~Has(d, "identifierType")) =>
                  /\ entOut.value.identifier_type = "ASIN"
                  /\ entOut.value.identifier = d.asin
            /\ (~Has(d, "identifierType") /\ ~Has(d, "asin")) =>
                  /\ entPc = "failed"
                  /\ ~entOut.ok
                  /\ entOut.value = NoEntity

\* A Track built from a lookup-service payload, which has no identifierType.
C22_Witness ==
    /\ entPc = "built"
    /\ entIn = [kind |-> "track", data |-> MuseTrack]
    /\ entOut.value.identifier_type = "ASIN"
    /\ entOut.value.identifier = "B2"

\* The i-th url() issued a lookup that gave a stream URL.
LookupSucceeded(i) ==
    /\ urlLog[i].called
    /\ urlLog[i].out.ok
    /\ urlLog[i].out.url # None

\* The i-th url() issued a lookup that raised.
LookupFailed(i) == urlLog[i].called /\ ~urlLog[i].out.ok

C23_Memo ==
    /\ \A i \in 1..Len(urlLog) :
          /\ LookupSucceeded(i) =>
                \A j \in (i + 1)..Len(urlLog) :
                    /\ ~urlLog[j].called
                    /\ urlLog[j].out.ok
                    /\ urlLog[j].out.url = urlLog[i].out.url
          /\ LookupFailed(i) =>
                /\ urlLog[i].out.url = None
                /\ i < Len(urlLog) => urlLog[i + 1].called
                /\ i = Len(urlLog) => trkUrl = None
    /\ Cardinality({ i \in 1..Len(urlLog) : LookupSucceeded(i) }) <= 1
    /\ Cardinality({ i \in 1..Len(urlLog) : urlLog[i].called }) = Len(calls)
    /\ \A k \in 1..Len(calls) : calls[k].endpoint = GET_URL

C23_Frame ==
    (entPc = "built" /\ entIn.kind = "track") =>
        /\ entOut' = entOut
        /\ entIn' = entIn
        /\ entPc' = entPc

\* C23: once a url() lookup has given a stream URL, every later url() on the
\* track returns that URL and issues no call, so a track has at most one
\* successful lookup; a lookup that fails (cap, missing URL fields, empty
\* list, transport or decoding error) leaves the memo unset, so the next
\* url() issues a lookup again; and no url() changes any other field of the
\* track.
C23_UrlMemoized == [](C23_Memo) /\ [][C23_Frame]_vars

\* A lookup that gave a URL, followed by a url() that issued no call and
\* returned the same URL.
C23_Witness ==
    /\ Len(urlLog) = 2
    /\ LookupSucceeded(1)
    /\ ~urlLog[2].called
    /\ urlLog[2].out.url = urlLog[1].out.url
    /\ Len(calls) = 1

---------------------------------------------------------------------------
(* Claims about the filter and the laziness of the library listing.        *)

\* The number of pages the running listing has fetched.
PagesFetched ==
    Cardinality({ i \in (ListingStart + 1)..Len(calls) :
                    calls[i].outcome = "ok" })

\* The number of fetched items the generator has taken out of its buffer.
Consumed == Len(UpstreamItems(PagesFetched)) - Len(libResults)

\* Page i has items and a continuation token.
HasMore(i) ==
    /\ libPages[i].searchReturnItemList # <<>>
    /\ libPages[i].nextResultsToken # Null

\* The number of calls due once the refill test has run after k items: the
\* first, and one for each page with items and a token, all pages before it
\* being such, whose last item is among the k.  It depends on the lengths
\* and tokens of the pages alone.
CallsDue(k) ==
    1 + Cardinality({ i \in 1..Len(libPages) :
                        /\ \A j \in 1..i : HasMore(j)
                        /\ Len(UpstreamItems(i)) <= k })

\* The last item of page i.
LastItem(i) ==
    libPages[i].searchReturnItemList[Len(libPages[i].searchReturnItemList)]

\* C26: which pages the listing fetches, and after which item, is fixed by
\* the lengths and tokens of the pages, whatever items are yielded or
\* filtered out: the number of calls is the number due for the items taken
\* so far.  In particular, at the end of a listing, a fetched page with a
\* token whose last item was filtered out is followed by the fetch of the
\* next page, whose passing items were yielded.
C26_FilterIndependentPaging ==
    /\ libPc \in {"loop", "done"} =>
          /\ Len(calls) = PagesFetched
          /\ Len(calls) = CallsDue(Consumed)
    /\ libPc \in {"yielded", "refill"} =>
          /\ Len(calls) = PagesFetched
          /\ Len(calls) = CallsDue(Consumed - 1)
    /\ libPc = "done" =>
          \A i \in 1..PagesFetched :
              (HasMore(i) /\ ~PassesFilter(LastItem(i))) =>
                  /\ PagesFetched >= i + 1
                  /\ \A j \in 1..Len(libPages[i + 1].searchReturnItemList) :
                        LET r == libPages[i + 1].searchReturnItemList[j] IN
                        PassesFilter(r) =>
                            \E y \in 1..Len(libYielded) : libYielded[y] = r.id

\* A finished listing whose first page ended with a filtered item and
\* carried a token: the second page was fetched and an album of it yielded.
C26_Witness ==
    /\ libPc = "done"
    /\ Len(libPages) = 2
    /\ HasMore(1)
    /\ ~PassesFilter(LastItem(1))
    /\ Len(calls) = 2
    /\ libYielded # <<>>
    /\ libYielded[Len(libYielded)] =
          libPages[2].searchReturnItemList[1].id

\* The fetched pages all of whose items have been taken out of the buffer.
PagesConsumed ==
    Cardinality({ i \in 1..PagesFetched : Len(UpstreamItems(i)) <= Consumed })

C27_State ==
    libPc # "none" =>
        /\ libPc = "created" => Len(calls) = ListingStart
        /\ Len(calls) - ListingStart <= 1 + PagesConsumed
        /\ PagesFetched >= 1 =>
              Len(libResults)
                <= Len(libPages[PagesFetched].searchReturnItemList)

C27_Step ==
    /\ (libPc' = "created") => calls' = calls
    /\ (libPc # "none" /\ calls' # calls /\ Len(calls) = ListingStart) =>
          libPc = "created"
    /\ (libPc # "none" /\ calls' # calls /\ Len(calls) > ListingStart) =>
          libResults = <<>>

\* C27: calling albums_in_library() issues no call; the first call of a
\* listing is issued when its first item is asked for; and at every point
\* the listing has issued at most one call more than the number of fetched
\* pages whose items have all been taken, a further call being issued only
\* on an empty buffer, so the buffer never holds items of two pages.
C27_LazyListing == [](C27_State) /\ [][C27_Step]_vars

\* A listing suspended at its first yield with an item still buffered and a
\* further page upstream: one call so far.
C27_Witness ==
    /\ libPc = "yielded"
    /\ Len(libStarts) = 1
    /\ Len(calls) = 1
    /\ Len(libResults) >= 1
    /\ libData.nextResultsToken # Null
    /\ Len(libYielded) = 1

---------------------------------------------------------------------------
(* Claims about the sign-in submission and the end of the construction.    *)

\* The form of the page the i-th request answers to: every request before
\* it was answered, and the i-th is sent on the latest answer.
FormInHand(i) == seResps[i - 1].form

\* The submission is posted to the form's action and carries each hidden
\* input under its name with its value.
CarriesForm(q, f) ==
    /\ q.url = f.action
    /\ \A j \in 1..Len(f.inputs) :
          f.inputs[j].type = "hidden" =>
              /\ f.inputs[j].name \in DOMAIN q.data
              /\ q.data[f.inputs[j].name] = f.inputs[j].value

\* The submission carries the email and password the caller supplied.
CarriesCredentials(q) ==
    /\ q.data["email"] = seArgs.email
    /\ q.data["password"] = seArgs.password

\* C25: every authentication submission is posted to the action of the form
\* in hand, carries each hidden field of that form with its name and value,
\* and carries the email and the password the caller supplied, whatever the
\* hidden fields are.
C25_SubmissionKeepsCredentials ==
    \A i \in 1..Len(seReqs) :
        seReqs[i].kind = "auth" =>
            /\ CarriesForm(seReqs[i], FormInHand(i))
            /\ CarriesCredentials(seReqs[i])

\* C24: every construction ends: it reaches Ready or it fails, whatever the
\* service answers.
C24_ConstructionEnds == <>(sePc \in {"ready", "failed"})

===========================================================================
